---- MODULE Spec2Model ----
(* Model of the jetty build runner: build() and processBuild() with the   *)
(* status/result sinks, the `*`-tasks, the deferred CMD, the deadline     *)
(* token, the CLI consumer of the two sinks and the nested sub-builds.    *)
EXTENDS Integers, Sequences, FiniteSets, TLC

\* Longest plan (number of directive records) explored.
MaxPlan ==
  3

\* Longest plan explored when the nested builds of SUB/FRM are followed too.
MaxSubPlan ==
  2

\* Directive records by the way processBuild treats them:
\*   SEQ  a sequential directive run through executeInstruction (RUN, DIR, ...;
\*        also a SUB/FRM seen only as a call that returns)
\*   STAR a `*`-prefixed directive run in its own goroutine
\*   CMD  the deferred terminal command
\*   SUB  a sequential SUB/FRM whose nested build is followed
Kinds ==
  {"SEQ", "STAR", "CMD"}

SubKinds ==
  Kinds \cup {"SUB"}

statusRunning ==
  "Running"

statusCompleted ==
  "Completed"

statusFailed ==
  "Failed"

VARIABLES
  fileNameEmpty,      \* job.FileName == ""
  parseErr,           \* parseFile returns an error
  instructions,       \* the records parseFile returns (kinds only)
  pbPc,               \* position of the processBuild goroutine
  currentInstruction, \* processBuild's loop counter
  cmdInstruction,     \* index of the stored CMD record, 0 = nil
  wg,                 \* sync.WaitGroup counter
  task,               \* position of each `*`-task goroutine
  taskRead,           \* the slice value a `*`-task read before its append
  concurrentErrors,   \* indices whose error is in the concurrentErrors slice
  pendingMsg,         \* message processBuild is about to send
  buildInfoStatus,    \* buildInfo.Status, processBuild's local
  buildPc,            \* position of build() (the timeout wrapper)
  ctxDone,            \* the build's context is Done
  rootDone,           \* main's root context is Done (signal received)
  resultChan,         \* messages delivered on the result sink, in order
  buildInfoChan,      \* records delivered on the status sink, in order
  resultClosed,
  infoClosed,
  doneClosed,         \* build()'s done channel
  consumerPc,         \* the CLI goroutine reading both sinks
  panicked,           \* the process died of a send on a closed channel
  mainExited,         \* the build command's Run returned and main exited
  sub,                \* state of the nested build each SUB launched
  subCtx,             \* that nested build's own context is Done
  taskErr,            \* history: `*`-tasks whose executor returned an error
  failedAt,           \* history: index of the sequential directive that failed
  cmdStarted,         \* history: executeCMD was called
  lateDispatch,       \* history: a directive was dispatched with ctxDone set
  expiredAt,          \* history: processBuild's position when the deadline hit
  ctxAtTerminal,      \* history: ctxDone when processBuild sent its terminal record
  joined,             \* history: wg.Wait() has returned
  inst,               \* executor: the record being executed (Directive, Args)
  args,               \* executor: the build's args map
  expandedArgs,       \* executor: RUN's expanded command string
  exPc,               \* executor: position in the handling of the record
  validated,          \* history: strings validateLinuxCommand accepted
  spawned,            \* history: strings handed to `sh -c`
  file,               \* parser: the lines of the plan file
  lineNo,             \* parser: lines the scanner has returned
  multiLineCommand,   \* parser: the continuation buffer
  records,            \* parser: parseFile's instructions slice / result
  parsePc,            \* parser: "scan", or how parseFile returned
  pfErr,              \* parser: the error parseFile returned
  recLine,            \* history: the line that completed each record
  jobCtx,             \* pool: each job's Context: "nil", "live" or "done"
  asPc,               \* pool: position of assignBuildToWorker(job)
  selectedWorker,     \* pool: the worker each call selected, 0 = nil
  jobResult,          \* pool: messages delivered on each job's result sink
  jobCloses,          \* pool: close() calls on each job's result sink
  jobInfo,            \* pool: records delivered on each job's status sink
  received,           \* pool: the jobs each worker took from its channel
  lateSend,           \* history: jobs sent to a worker with the token fired
  regPc,              \* registry: position of listActiveBuilds
  activeBuilds,       \* registry: the activeBuilds map
  processed,          \* history: the records the registry has received
  published,          \* registry: the mappings its reader received
  inClosed,           \* registry: its input channel is closed
  regDone,            \* registry: its done channel is closed
  dPlan,              \* dir: the records of the build's plan (Directive, Args)
  dCur,               \* dir: index of the record processBuild's loop is at
  dThr,               \* dir: position of processBuild's loop (0) and of each `*`-task
  dArgs,              \* dir: the build's args map
  dLock,              \* dir: holder of argsMutex, -1 when it is free
  dEnv,               \* dir: the process environment
  dBoxes,             \* dir: the boxes map of each thread's executeInstruction call
  dText,              \* dir: the string each thread's expandArgs returned
  dLog,               \* dir: history: what the directives did, in order
  mIn,                \* main: what the command line asks for
  mainPc,             \* main: position of main
  hsPc,               \* main: position of the goroutine that calls handleSubcommands
  runPc,              \* main: position of the goroutine that calls cmd.Run
  runResult,          \* main: how cmd.Run ended
  hsErr,              \* main: the error handleSubcommands returned
  mRoot,              \* main: main's root context is cancelled
  mDone,              \* main: main's done channel is closed
  exitCode,           \* main: the process exit code, -1 while the process runs
  fPb,                \* fwd: position of the sub-build's processBuild
  fBuild,             \* fwd: position of the sub-build's build()
  fRf,                \* fwd: position of the goroutine that forwards subResultChan
  fIf,                \* fwd: position of the goroutine that forwards subBuildInfoChan
  fMain,              \* fwd: position of buildFunc, the body of the SUB
  fCtx,               \* fwd: the sub-build's context is Done (its deadline has passed)
  fCeil,              \* fwd: the SUB's time.After(5 * time.Minute) has fired
  fResClosed,         \* fwd: subResultChan is closed
  fInfoClosed,        \* fwd: subBuildInfoChan is closed
  fHeld,              \* fwd: the message the result forwarder has received and not yet sent on
  fEmitted,           \* fwd: history: the messages the sub-build has sent on subResultChan
  fOut,               \* fwd: the messages delivered on the parent's result sink
  fPanic,             \* fwd: the process died of a send on a closed channel
  vCmd,               \* val: the command string given to validateLinuxCommand
  vFirst,             \* val: what the first call returned, "none" before it
  vSecond,            \* val: what the second call returned, "none" before it
  xS,                 \* exp: the string given to expandArgs
  xArgs,              \* exp: the args map given to expandArgs
  xOut,               \* exp: the string expandArgs returned, "none" before the call
  pass,               \* trip: 1 while the plan file is parsed, 2 while its rendering is parsed
  firstRecords,       \* trip: the records parseFile returned for the plan file
  fsCwd,              \* fs: the working directory of the process, as the names below the start directory
  fsDirs,             \* fs: the directories that exist
  fsFiles,            \* fs: the files that exist, each a pair of its path and its content
  psArgs,             \* ps: the arguments ps was given
  psPc,               \* ps: where the Run of ps is
  psReg,              \* ps: where the goroutine of listActiveBuilds started by ps is
  psTimeout           \* ps: the 30-second deadline of cmdCtx has expired

vars ==
  << fileNameEmpty, parseErr, instructions, pbPc, currentInstruction,
     cmdInstruction, wg, task, taskRead, concurrentErrors, pendingMsg,
     buildInfoStatus, buildPc, ctxDone, rootDone, resultChan, buildInfoChan,
     resultClosed, infoClosed, doneClosed, consumerPc, panicked, mainExited,
     sub, subCtx,
     taskErr, failedAt, cmdStarted, lateDispatch, expiredAt, ctxAtTerminal,
     joined,
     inst, args, expandedArgs, exPc, validated, spawned,
     file, lineNo, multiLineCommand, records, parsePc, pfErr, recLine,
     jobCtx, asPc, selectedWorker, jobResult, jobCloses, jobInfo, received,
     lateSend,
     regPc, activeBuilds, processed, published, inClosed, regDone,
     dPlan, dCur, dThr, dArgs, dLock, dEnv, dBoxes, dText, dLog,
     mIn, mainPc, hsPc, runPc, runResult, hsErr, mRoot, mDone, exitCode,
     fPb, fBuild, fRf, fIf, fMain, fCtx, fCeil, fResClosed, fInfoClosed, fHeld, fEmitted, fOut, fPanic,
     vCmd, vFirst, vSecond,
     xS, xArgs, xOut,
     pass, firstRecords,
     fsCwd, fsDirs, fsFiles,
     psArgs, psPc, psReg, psTimeout >>

\* The variables of one build (processBuild, build, the CLI reader).
buildAll ==
  << fileNameEmpty, parseErr, instructions, pbPc, currentInstruction,
     cmdInstruction, wg, task, taskRead, concurrentErrors, pendingMsg,
     buildInfoStatus, buildPc, ctxDone, rootDone, resultChan, buildInfoChan,
     resultClosed, infoClosed, doneClosed, consumerPc, panicked, mainExited,
     sub, subCtx,
     taskErr, failedAt, cmdStarted, lateDispatch, expiredAt, ctxAtTerminal,
     joined >>

\* The variables of the directive executor followed for one command record.
execVars ==
  << inst, args, expandedArgs, exPc, validated, spawned >>

\* No record is being executed.
ExecIdle ==
  /\ inst = [Directive |-> << >>, Args |-> << >>]
  /\ args = << >>
  /\ expandedArgs = << >>
  /\ exPc = "idle"
  /\ validated = {}
  /\ spawned = {}

\* The variables of parseFile run on one file.
parseVars ==
  << file, lineNo, multiLineCommand, records, parsePc, pfErr, recLine >>

\* parseFile's error value when it has returned none.
NoParseError ==
  [text |-> "none", what |-> << >>]

\* No file is being parsed.
ParseIdle ==
  /\ file = << >>
  /\ lineNo = 0
  /\ multiLineCommand = << >>
  /\ records = << >>
  /\ parsePc = "idle"
  /\ pfErr = NoParseError
  /\ recLine = << >>

\* Jobs handed to assignBuildToWorker at the same time.
MaxJobs ==
  2

Jobs ==
  1..MaxJobs

\* initializeGlobalWorkerPool(4)
NumWorkers ==
  4

Workers ==
  1..NumWorkers

\* The variables of the worker pool and of the calls of assignBuildToWorker.
poolVars ==
  << jobCtx, asPc, selectedWorker, jobResult, jobCloses, jobInfo, received,
     lateSend >>

\* The pool is started and no job is being assigned.
PoolIdle ==
  /\ jobCtx = [j \in Jobs |-> "nil"]
  /\ asPc = [j \in Jobs |-> "idle"]
  /\ selectedWorker = [j \in Jobs |-> 0]
  /\ jobResult = [j \in Jobs |-> << >>]
  /\ jobCloses = [j \in Jobs |-> 0]
  /\ jobInfo = [j \in Jobs |-> << >>]
  /\ received = [w \in Workers |-> << >>]
  /\ lateSend = {}

\* The variables of listActiveBuilds and of its three channels.
regVars ==
  << regPc, activeBuilds, processed, published, inClosed, regDone >>

\* No registry is started.
RegIdle ==
  /\ regPc = "idle"
  /\ activeBuilds = {}
  /\ processed = << >>
  /\ published = << >>
  /\ inClosed = FALSE
  /\ regDone = FALSE

\* The variables of one build's directives run through executeInstruction.
dirVars ==
  << dPlan, dCur, dThr, dArgs, dLock, dEnv, dBoxes, dText, dLog >>

\* No build's directives are followed.
DirIdle ==
  /\ dPlan = << >>
  /\ dCur = 0
  /\ dThr = [t \in {0} |-> "idle"]
  /\ dArgs = {}
  /\ dLock = -1
  /\ dEnv = {}
  /\ dBoxes = [t \in {0} |-> {}]
  /\ dText = [t \in {0} |-> << >>]
  /\ dLog = << >>

\* The variables of main, handleSubcommands and the command they run.
mainVars ==
  << mIn, mainPc, hsPc, runPc, runResult, hsErr, mRoot, mDone, exitCode >>

\* No command line is followed.
MainIdle ==
  /\ mIn = "none"
  /\ mainPc = "idle"
  /\ hsPc = "none"
  /\ runPc = "none"
  /\ runResult = "none"
  /\ hsErr = "none"
  /\ mRoot = FALSE
  /\ mDone = FALSE
  /\ exitCode = -1

\* The variables of a synchronous SUB (or FRM) and of its sub-build.
fwdVars ==
  << fPb, fBuild, fRf, fIf, fMain, fCtx, fCeil, fResClosed, fInfoClosed, fHeld, fEmitted, fOut, fPanic >>

\* No SUB is followed.
FwdIdle ==
  /\ fPb = "idle"
  /\ fBuild = "idle"
  /\ fRf = "idle"
  /\ fIf = "idle"
  /\ fMain = "idle"
  /\ fCtx = FALSE
  /\ fCeil = FALSE
  /\ fResClosed = FALSE
  /\ fInfoClosed = FALSE
  /\ fHeld = "none"
  /\ fEmitted = << >>
  /\ fOut = << >>
  /\ fPanic = FALSE

\* The variables of two calls of validateLinuxCommand on one string.
valVars ==
  << vCmd, vFirst, vSecond >>

\* No validation is followed.
ValIdle ==
  /\ vCmd = << >>
  /\ vFirst = "idle"
  /\ vSecond = "idle"

\* The variables of one call of expandArgs.
expVars ==
  << xS, xArgs, xOut >>

\* No expansion is followed.
ExpIdle ==
  /\ xS = << >>
  /\ xArgs = {}
  /\ xOut = "idle"

\* The variables of the round trip of a plan.
tripVars ==
  << pass, firstRecords >>

\* No plan has been rendered and parsed again.
TripIdle ==
  /\ pass = 1
  /\ firstRecords = << >>

\* The variables of the file system a build works in.
fsVars ==
  << fsCwd, fsDirs, fsFiles >>

\* The file system as a build finds it: the start directory with the one
\* file s in it.
FsIdle ==
  /\ fsCwd = << >>
  /\ fsDirs = {<< >>}
  /\ fsFiles = {<< << "s" >>, << << "data" >> >> >>}

\* The variables of the ps command.
psVars ==
  << psArgs, psPc, psReg, psTimeout >>

\* No ps command is followed.
PsIdle ==
  /\ psArgs = ""
  /\ psPc = "none"
  /\ psReg = "none"
  /\ psTimeout = FALSE

\* Everything but the executor's variables.
notExecVars ==
  << buildAll, parseVars, poolVars, regVars, dirVars, mainVars, fwdVars, valVars, expVars, tripVars, fsVars, psVars >>

\* Everything but the parser's variables.
notParseVars ==
  << buildAll, execVars, poolVars, regVars, dirVars, mainVars, fwdVars, valVars, expVars, tripVars, fsVars, psVars >>

\* Everything but the pool's variables.
notPoolVars ==
  << buildAll, execVars, parseVars, regVars, dirVars, mainVars, fwdVars, valVars, expVars, tripVars, fsVars, psVars >>

\* Everything but the registry's variables.
notRegVars ==
  << buildAll, execVars, parseVars, poolVars, dirVars, mainVars, fwdVars, valVars, expVars, tripVars, fsVars, psVars >>

\* Everything but the variables of the directive sequence.
notDirVars ==
  << buildAll, execVars, parseVars, poolVars, regVars, mainVars, fwdVars, valVars, expVars, tripVars, fsVars, psVars >>

\* Everything but the variables of main.
notMainVars ==
  << buildAll, execVars, parseVars, poolVars, regVars, dirVars, fwdVars, valVars, expVars, tripVars, fsVars, psVars >>

\* Everything but the variables of the SUB.
notFwdVars ==
  << buildAll, execVars, parseVars, poolVars, regVars, dirVars, mainVars, valVars, expVars, tripVars, fsVars, psVars >>

\* Everything but the variables of the two validations.
notValVars ==
  << buildAll, execVars, parseVars, poolVars, regVars, dirVars, mainVars, fwdVars, expVars, tripVars, fsVars, psVars >>

\* Everything but the variables of the expansion.
notExpVars ==
  << buildAll, execVars, parseVars, poolVars, regVars, dirVars, mainVars, fwdVars, valVars, tripVars, fsVars, psVars >>

\* Everything but the variables of the round trip of a plan.
notTripVars ==
  << buildAll, execVars, parseVars, poolVars, regVars, dirVars, mainVars, fwdVars, valVars, expVars, fsVars, psVars >>

\* Everything but the variables of the file system a build works in.
notFsVars ==
  << buildAll, execVars, parseVars, poolVars, regVars, dirVars, mainVars, fwdVars, valVars, expVars, tripVars, psVars >>

\* Everything but the variables of the ps command.
notPsVars ==
  << buildAll, execVars, parseVars, poolVars, regVars, dirVars, mainVars, fwdVars, valVars, expVars, tripVars, fsVars >>

\* The components a build is not followed into; no step of a build changes
\* their variables.
otherVars ==
  << execVars, parseVars, poolVars, regVars, dirVars, mainVars, fwdVars, valVars, expVars, tripVars, fsVars, psVars >>

Idx ==
  1..MaxPlan

RECURSIVE SeqsUpTo(_, _)
SeqsUpTo(n, K) ==
  IF n = 0 THEN {<< >>}
  ELSE LET S == SeqsUpTo(n - 1, K)
       IN  S \cup {Append(s, k) : s \in {t \in S : Len(t) = n - 1}, k \in K}

Plans ==
  SeqsUpTo(MaxPlan, Kinds)

SubPlans ==
  SeqsUpTo(MaxSubPlan, SubKinds)

\* A BuildInfo record as seen on the status sink: its status and who sent it.
BuildInfo(st, who) ==
  [status |-> st, from |-> who]

\* A message on the result sink: its text and the "(n/total)" position it
\* carries, 0 when it carries none.
Msg(text, n) ==
  [text |-> text, n |-> n]

Terminal(st) ==
  st \in {statusCompleted, statusFailed}

\* The state of a build when build() has just started its goroutine.
BuildStart ==
  /\ pbPc = "start"
  /\ currentInstruction = 0
  /\ cmdInstruction = 0
  /\ wg = 0
  /\ task = [i \in Idx |-> "none"]
  /\ taskRead = [i \in Idx |-> {}]
  /\ concurrentErrors = {}
  /\ pendingMsg = Msg("none", 0)
  /\ buildInfoStatus = statusRunning
  /\ buildPc = "select"
  /\ ctxDone = FALSE
  /\ rootDone = FALSE
  /\ resultChan = << >>
  /\ buildInfoChan = << >>
  /\ resultClosed = FALSE
  /\ infoClosed = FALSE
  /\ doneClosed = FALSE
  /\ consumerPc = "reading"
  /\ panicked = FALSE
  /\ mainExited = FALSE
  /\ sub = [i \in Idx |-> "none"]
  /\ subCtx = [i \in Idx |-> FALSE]
  /\ taskErr = {}
  /\ failedAt = 0
  /\ cmdStarted = FALSE
  /\ lateDispatch = FALSE
  /\ expiredAt = "none"
  /\ ctxAtTerminal = FALSE
  /\ joined = FALSE

\* No build is followed: the build of the empty plan, never stepped.
BuildIdle ==
  /\ fileNameEmpty = FALSE
  /\ parseErr = FALSE
  /\ instructions = << >>
  /\ BuildStart

\* Every component but c is idle.
IdleExcept(c) ==
  /\ IF c = "build" THEN TRUE ELSE BuildIdle
  /\ IF c = "exec" THEN TRUE ELSE ExecIdle
  /\ IF c = "parse" THEN TRUE ELSE ParseIdle
  /\ IF c = "pool" THEN TRUE ELSE PoolIdle
  /\ IF c = "reg" THEN TRUE ELSE RegIdle
  /\ IF c = "dir" THEN TRUE ELSE DirIdle
  /\ IF c = "main" THEN TRUE ELSE MainIdle
  /\ IF c = "fwd" THEN TRUE ELSE FwdIdle
  /\ IF c = "val" THEN TRUE ELSE ValIdle
  /\ IF c = "exp" THEN TRUE ELSE ExpIdle
  /\ IF c = "trip" THEN TRUE ELSE TripIdle
  /\ IF c = "fs" THEN TRUE ELSE FsIdle
  /\ IF c = "ps" THEN TRUE ELSE PsIdle

\* The components other than the one a specification follows are idle.
OthersIdle ==
  IdleExcept("build")

InitWith(P) ==
  /\ fileNameEmpty \in BOOLEAN
  /\ parseErr \in BOOLEAN
  /\ instructions \in P
  /\ (fileNameEmpty => ~parseErr /\ instructions = << >>)
  /\ (parseErr => instructions = << >>)
  /\ BuildStart
  /\ OthersIdle

Init ==
  InitWith(Plans)

InitSub ==
  InitWith(SubPlans)


\* ---------------------------------------------------------------- helpers

\* An unbuffered send completes when the channel is open and the CLI
\* goroutine is still in its receive loop.
CanDeliver(closed) ==
  ~closed /\ consumerPc = "reading"

\* A join that does not wait for the counter to reach zero.
WaitDoneSkipped(w) ==
  TRUE

\* wg.Wait() returns.
WaitDone(w) ==
  w = 0

\* A loop that logs nothing and carries on after a failed directive.
ExecErrIgnored(err) ==
  FALSE

\* `if err != nil { ...; return }` after a sequential executeInstruction.
ExecErrFatal(err) ==
  err

\* A CMD test that lets a later CMD replace the stored one.
CmdPendingNever(c) ==
  FALSE

\* `if cmdInstruction != nil` on seeing a CMD record.
CmdPending(c) ==
  c # 0

\* A join that never looks at the collected errors.
NoConcurrentErrors(ce) ==
  FALSE

\* `if len(concurrentErrors) > 0` after the join.
HasConcurrentErrors(ce) ==
  ce # {}

\* A build that reports Failed whatever message it sent last.
StatusNeverCompleted(msg) ==
  statusFailed

\* The status processBuild sets after sending a message: only the output of
\* a successful executeCMD is followed by statusCompleted.
StatusAfter(msg) ==
  IF msg.text = "Done" THEN statusCompleted ELSE statusFailed

inputVars ==
  << fileNameEmpty, parseErr, instructions, otherVars >>

taskVars ==
  << wg, task, taskRead, concurrentErrors, taskErr >>

chanVars ==
  << resultChan, buildInfoChan, resultClosed, infoClosed, doneClosed >>

buildVars ==
  << buildPc, ctxDone, expiredAt >>

subVars ==
  << sub, subCtx >>

envVars ==
  << rootDone, consumerPc, panicked, mainExited >>

\* The process is running: it has neither crashed nor exited.
Alive ==
  ~panicked /\ ~mainExited

\* ------------------------------------------------------------ processBuild

\* job.BuildInfoChan <- buildInfo (Running).  The job.Context == nil return
\* before it is never taken: build() is the only caller and always sets it.
PB_Start ==
  /\ Alive
  /\ pbPc = "start"
  /\ CanDeliver(infoClosed)
  /\ buildInfoChan' = Append(buildInfoChan, BuildInfo(statusRunning, "processBuild"))
  /\ pbPc' = "precheck"
  /\ UNCHANGED << inputVars, currentInstruction, cmdInstruction, pendingMsg,
                  buildInfoStatus, taskVars, resultChan, resultClosed, infoClosed,
                  doneClosed, buildVars, subVars, envVars, failedAt, cmdStarted,
                  lateDispatch, ctxAtTerminal, joined >>

\* the select before parsing, then the file-name test
PB_PreCheck ==
  /\ Alive
  /\ pbPc = "precheck"
  /\ IF ctxDone
       THEN pbPc' = "sendMsg" /\ pendingMsg' = Msg("Build cancelled", 0)
       ELSE IF fileNameEmpty
         THEN pbPc' = "sendMsg" /\ pendingMsg' = Msg("Error: please provide a file name", 0)
         ELSE pbPc' = "parse" /\ UNCHANGED pendingMsg
  /\ UNCHANGED << inputVars, currentInstruction, cmdInstruction, buildInfoStatus,
                  taskVars, chanVars, buildVars, subVars, envVars, failedAt,
                  cmdStarted, lateDispatch, ctxAtTerminal, joined >>

\* instructions, err := parseFile(job.FileName)
PB_Parse ==
  /\ Alive
  /\ pbPc = "parse"
  /\ IF parseErr
       THEN pbPc' = "sendMsg" /\ pendingMsg' = Msg("Error parsing file", 0)
       ELSE pbPc' = "loop" /\ UNCHANGED pendingMsg
  /\ UNCHANGED << inputVars, currentInstruction, cmdInstruction, buildInfoStatus,
                  taskVars, chanVars, buildVars, subVars, envVars, failedAt,
                  cmdStarted, lateDispatch, ctxAtTerminal, joined >>

\* loop iteration, case <-job.Context.Done()
PB_Cancelled ==
  /\ Alive
  /\ pbPc = "loop"
  /\ currentInstruction < Len(instructions)
  /\ ctxDone
  /\ pbPc' = "sendMsg"
  /\ pendingMsg' = Msg("Build cancelled", 0)
  /\ UNCHANGED << inputVars, currentInstruction, cmdInstruction, buildInfoStatus,
                  taskVars, chanVars, buildVars, subVars, envVars, failedAt,
                  cmdStarted, lateDispatch, ctxAtTerminal, joined >>

\* loop iteration, default case, inst.Directive == "CMD"
PB_Cmd ==
  /\ Alive
  /\ pbPc = "loop"
  /\ currentInstruction < Len(instructions)
  /\ ~ctxDone
  /\ instructions[currentInstruction + 1] = "CMD"
  /\ currentInstruction' = currentInstruction + 1
  /\ IF CmdPending(cmdInstruction)
       THEN /\ pbPc' = "sendMsg"
            /\ pendingMsg' = Msg("Error: multiple CMD directives are not allowed",
                                 currentInstruction + 1)
            /\ UNCHANGED cmdInstruction
       ELSE /\ cmdInstruction' = currentInstruction + 1
            /\ UNCHANGED << pbPc, pendingMsg >>
  /\ UNCHANGED << inputVars, buildInfoStatus, taskVars, chanVars, buildVars,
                  subVars, envVars, failedAt, cmdStarted, lateDispatch,
                  ctxAtTerminal, joined >>

\* loop iteration, default case, a `*` directive: wg.Add(1); go func(...)
PB_Star ==
  /\ Alive
  /\ pbPc = "loop"
  /\ currentInstruction < Len(instructions)
  /\ ~ctxDone
  /\ instructions[currentInstruction + 1] = "STAR"
  /\ currentInstruction' = currentInstruction + 1
  /\ wg' = wg + 1
  /\ task' = [task EXCEPT ![currentInstruction + 1] = "running"]
  /\ lateDispatch' = (lateDispatch \/ ctxDone)
  /\ UNCHANGED << inputVars, pbPc, cmdInstruction, pendingMsg, buildInfoStatus,
                  taskRead, concurrentErrors, taskErr, chanVars, buildVars,
                  subVars, envVars, failedAt, cmdStarted, ctxAtTerminal, joined >>

\* loop iteration, default case, a sequential directive: executeInstruction
PB_Seq ==
  /\ Alive
  /\ pbPc = "loop"
  /\ currentInstruction < Len(instructions)
  /\ ~ctxDone
  /\ instructions[currentInstruction + 1] = "SEQ"
  /\ currentInstruction' = currentInstruction + 1
  /\ pbPc' = "execSeq"
  /\ lateDispatch' = (lateDispatch \/ ctxDone)
  /\ UNCHANGED << inputVars, cmdInstruction, pendingMsg, buildInfoStatus,
                  taskVars, chanVars, buildVars, subVars, envVars, failedAt,
                  cmdStarted, ctxAtTerminal, joined >>

\* executeInstruction returns: nil after its log message, or an error
PB_SeqReturn ==
  /\ Alive
  /\ pbPc = "execSeq"
  /\ \E err \in BOOLEAN :
       /\ failedAt' = IF err /\ failedAt = 0 THEN currentInstruction ELSE failedAt
       /\ IF ExecErrFatal(err)
            THEN /\ pbPc' = "sendMsg"
                 /\ pendingMsg' = Msg("Error: executing instruction", currentInstruction)
                 /\ UNCHANGED resultChan
            ELSE /\ (err \/ CanDeliver(resultClosed))
                 /\ resultChan' = IF err THEN resultChan
                                         ELSE Append(resultChan, Msg("log", 0))
                 /\ pbPc' = "loop"
                 /\ UNCHANGED pendingMsg
  /\ UNCHANGED << inputVars, currentInstruction, cmdInstruction, buildInfoStatus,
                  taskVars, buildInfoChan, resultClosed, infoClosed, doneClosed,
                  buildVars, subVars, envVars, cmdStarted, lateDispatch,
                  ctxAtTerminal, joined >>

\* loop iteration, default case, SUB/FRM: go build(referencedFile, ...)
PB_Sub ==
  /\ Alive
  /\ pbPc = "loop"
  /\ currentInstruction < Len(instructions)
  /\ ~ctxDone
  /\ instructions[currentInstruction + 1] = "SUB"
  /\ currentInstruction' = currentInstruction + 1
  /\ pbPc' = "execSub"
  /\ sub' = [sub EXCEPT ![currentInstruction + 1] = "running"]
  /\ lateDispatch' = (lateDispatch \/ ctxDone)
  /\ UNCHANGED << inputVars, cmdInstruction, pendingMsg, buildInfoStatus,
                  taskVars, chanVars, buildVars, subCtx, envVars, failedAt,
                  cmdStarted, ctxAtTerminal, joined >>

\* SUB's select: both forwarders finished, or the 5-minute ceiling
PB_SubReturn ==
  /\ Alive
  /\ pbPc = "execSub"
  /\ CanDeliver(resultClosed)
  /\ \/ /\ sub[currentInstruction] = "done"
        /\ resultChan' = Append(resultChan, Msg("log", 0))
     \/ /\ sub[currentInstruction] = "running"
        /\ resultChan' = resultChan \o << Msg("Sub-build timed out", 0), Msg("log", 0) >>
  /\ pbPc' = "loop"
  /\ UNCHANGED << inputVars, currentInstruction, cmdInstruction, pendingMsg,
                  buildInfoStatus, taskVars, buildInfoChan, resultClosed,
                  infoClosed, doneClosed, buildVars, subVars, envVars, failedAt,
                  cmdStarted, lateDispatch, ctxAtTerminal, joined >>

\* the range loop is exhausted
PB_LoopEnd ==
  /\ Alive
  /\ pbPc = "loop"
  /\ currentInstruction = Len(instructions)
  /\ pbPc' = "wait"
  /\ UNCHANGED << inputVars, currentInstruction, cmdInstruction, pendingMsg,
                  buildInfoStatus, taskVars, chanVars, buildVars, subVars,
                  envVars, failedAt, cmdStarted, lateDispatch, ctxAtTerminal, joined >>

\* wg.Wait(), the concurrent-error test and the CMD test
PB_Wait ==
  /\ Alive
  /\ pbPc = "wait"
  /\ WaitDone(wg)
  /\ joined' = TRUE
  /\ IF HasConcurrentErrors(concurrentErrors)
       THEN /\ pbPc' = "sendMsg"
            /\ pendingMsg' = Msg("Errors occurred during concurrent execution", 0)
            /\ UNCHANGED << buildInfoStatus, cmdStarted, lateDispatch >>
       ELSE IF cmdInstruction # 0
         THEN /\ pbPc' = "cmd"
              /\ cmdStarted' = TRUE
              /\ lateDispatch' = (lateDispatch \/ ctxDone)
              /\ UNCHANGED << pendingMsg, buildInfoStatus >>
         ELSE /\ pbPc' = "sendInfo"
              /\ buildInfoStatus' = statusCompleted
              /\ UNCHANGED << pendingMsg, cmdStarted, lateDispatch >>
  /\ UNCHANGED << inputVars, currentInstruction, cmdInstruction, taskVars,
                  chanVars, buildVars, subVars, envVars, failedAt,
                  ctxAtTerminal >>

\* executeCMD's shell returns
PB_CmdReturn ==
  /\ Alive
  /\ pbPc = "cmd"
  /\ \E err \in BOOLEAN :
       pendingMsg' = IF err
                       THEN Msg("Error: executing CMD instruction", Len(instructions))
                       ELSE Msg("Done", 0)
  /\ pbPc' = "sendMsg"
  /\ UNCHANGED << inputVars, currentInstruction, cmdInstruction, buildInfoStatus,
                  taskVars, chanVars, buildVars, subVars, envVars, failedAt,
                  cmdStarted, lateDispatch, ctxAtTerminal, joined >>

\* job.ResultChan <- message; buildInfo.Status = ...
PB_SendMsg ==
  /\ Alive
  /\ pbPc = "sendMsg"
  /\ CanDeliver(resultClosed)
  /\ resultChan' = Append(resultChan, pendingMsg)
  /\ buildInfoStatus' = StatusAfter(pendingMsg)
  /\ pbPc' = "sendInfo"
  /\ UNCHANGED << inputVars, currentInstruction, cmdInstruction, pendingMsg,
                  taskVars, buildInfoChan, resultClosed, infoClosed, doneClosed,
                  buildVars, subVars, envVars, failedAt, cmdStarted,
                  lateDispatch, ctxAtTerminal, joined >>

\* job.BuildInfoChan <- buildInfo (terminal)
PB_SendInfo ==
  /\ Alive
  /\ pbPc = "sendInfo"
  /\ CanDeliver(infoClosed)
  /\ buildInfoChan' = Append(buildInfoChan, BuildInfo(buildInfoStatus, "processBuild"))
  /\ ctxAtTerminal' = ctxDone
  /\ pbPc' = "closeInfo"
  /\ UNCHANGED << inputVars, currentInstruction, cmdInstruction, pendingMsg,
                  buildInfoStatus, taskVars, resultChan, resultClosed, infoClosed,
                  doneClosed, buildVars, subVars, envVars, failedAt, cmdStarted,
                  lateDispatch, joined >>

\* defer close(job.BuildInfoChan)
PB_CloseInfo ==
  /\ Alive
  /\ pbPc = "closeInfo"
  /\ infoClosed' = TRUE
  /\ pbPc' = "closeResult"
  /\ UNCHANGED << inputVars, currentInstruction, cmdInstruction, pendingMsg,
                  buildInfoStatus, taskVars, resultChan, buildInfoChan,
                  resultClosed, doneClosed, buildVars, subVars, envVars,
                  failedAt, cmdStarted, lateDispatch, ctxAtTerminal, joined >>

\* defer close(job.ResultChan)
PB_CloseResult ==
  /\ Alive
  /\ pbPc = "closeResult"
  /\ resultClosed' = TRUE
  /\ pbPc' = "closeDone"
  /\ UNCHANGED << inputVars, currentInstruction, cmdInstruction, pendingMsg,
                  buildInfoStatus, taskVars, resultChan, buildInfoChan,
                  infoClosed, doneClosed, buildVars, subVars, envVars,
                  failedAt, cmdStarted, lateDispatch, ctxAtTerminal, joined >>

\* close(done) in the goroutine build() started
PB_CloseDone ==
  /\ Alive
  /\ pbPc = "closeDone"
  /\ doneClosed' = TRUE
  /\ pbPc' = "exited"
  /\ UNCHANGED << inputVars, currentInstruction, cmdInstruction, pendingMsg,
                  buildInfoStatus, taskVars, resultChan, buildInfoChan,
                  resultClosed, infoClosed, buildVars, subVars, envVars,
                  failedAt, cmdStarted, lateDispatch, ctxAtTerminal, joined >>

\* ------------------------------------------------------------- `*`-tasks

\* executeInstructionConcurrent returns nil: the handler has sent its log
\* message on job.ResultChan; then the deferred wg.Done()
Task_Ok(i) ==
  /\ Alive
  /\ task[i] = "running"
  /\ CanDeliver(resultClosed)
  /\ resultChan' = Append(resultChan, Msg("log", 0))
  /\ task' = [task EXCEPT ![i] = "done"]
  /\ wg' = wg - 1
  /\ UNCHANGED << inputVars, pbPc, currentInstruction, cmdInstruction, pendingMsg,
                  buildInfoStatus, taskRead, concurrentErrors, taskErr,
                  buildInfoChan, resultClosed, infoClosed, doneClosed, buildVars,
                  subVars, envVars, failedAt, cmdStarted, lateDispatch,
                  ctxAtTerminal, joined >>

\* executeInstructionConcurrent returns an error
Task_Err(i) ==
  /\ Alive
  /\ task[i] = "running"
  /\ task' = [task EXCEPT ![i] = "errMsg"]
  /\ taskErr' = taskErr \cup {i}
  /\ UNCHANGED << inputVars, pbPc, currentInstruction, cmdInstruction, pendingMsg,
                  buildInfoStatus, wg, taskRead, concurrentErrors, chanVars,
                  buildVars, subVars, envVars, failedAt, cmdStarted, lateDispatch,
                  ctxAtTerminal, joined >>

\* job.ResultChan <- "(n/m) Error: executing instruction: ..."
Task_ErrMsg(i) ==
  /\ Alive
  /\ task[i] = "errMsg"
  /\ CanDeliver(resultClosed)
  /\ resultChan' = Append(resultChan, Msg("Error: executing instruction", i))
  /\ task' = [task EXCEPT ![i] = "appendRead"]
  /\ UNCHANGED << inputVars, pbPc, currentInstruction, cmdInstruction, pendingMsg,
                  buildInfoStatus, wg, taskRead, concurrentErrors, taskErr,
                  buildInfoChan, resultClosed, infoClosed, doneClosed, buildVars,
                  subVars, envVars, failedAt, cmdStarted, lateDispatch,
                  ctxAtTerminal, joined >>

\* concurrentErrors = append(concurrentErrors, err): the unsynchronised read
Task_AppendRead(i) ==
  /\ Alive
  /\ task[i] = "appendRead"
  /\ taskRead' = [taskRead EXCEPT ![i] = concurrentErrors]
  /\ task' = [task EXCEPT ![i] = "appendWrite"]
  /\ UNCHANGED << inputVars, pbPc, currentInstruction, cmdInstruction, pendingMsg,
                  buildInfoStatus, wg, concurrentErrors, taskErr, chanVars,
                  buildVars, subVars, envVars, failedAt, cmdStarted, lateDispatch,
                  ctxAtTerminal, joined >>

\* ... and the write back of the extended slice; then the deferred wg.Done()
Task_AppendWrite(i) ==
  /\ Alive
  /\ task[i] = "appendWrite"
  /\ concurrentErrors' = taskRead[i] \cup {i}
  /\ task' = [task EXCEPT ![i] = "done"]
  /\ wg' = wg - 1
  /\ UNCHANGED << inputVars, pbPc, currentInstruction, cmdInstruction, pendingMsg,
                  buildInfoStatus, taskRead, taskErr, chanVars, buildVars, subVars,
                  envVars, failedAt, cmdStarted, lateDispatch, ctxAtTerminal, joined >>

\* a `*`-task sends on job.ResultChan after processBuild has closed it
Task_SendPanic(i) ==
  /\ Alive
  /\ task[i] \in {"running", "errMsg"}
  /\ resultClosed
  /\ panicked' = TRUE
  /\ UNCHANGED << inputVars, pbPc, currentInstruction, cmdInstruction, pendingMsg,
                  buildInfoStatus, taskVars, chanVars, buildVars, subVars,
                  rootDone, consumerPc, mainExited, failedAt, cmdStarted, lateDispatch,
                  ctxAtTerminal, joined >>

\* ------------------------------------------------- build(), the wrapper

\* the 5-minute deadline of context.WithTimeout(context.Background(), ...)
\* expires; nothing else fires this token before build() returns, the root
\* token of main in particular does not
Deadline ==
  /\ Alive
  /\ buildPc # "returned"
  /\ ~ctxDone
  /\ ctxDone' = TRUE
  /\ expiredAt' = pbPc
  /\ UNCHANGED << inputVars, pbPc, currentInstruction, cmdInstruction, pendingMsg,
                  buildInfoStatus, taskVars, chanVars, buildPc, subVars, envVars,
                  failedAt, cmdStarted, lateDispatch, ctxAtTerminal, joined >>

\* select: case <-ctx.Done()
Build_SelectTimeout ==
  /\ Alive
  /\ buildPc = "select"
  /\ ctxDone
  /\ buildPc' = "timeoutMsg"
  /\ UNCHANGED << inputVars, pbPc, currentInstruction, cmdInstruction, pendingMsg,
                  buildInfoStatus, taskVars, chanVars, ctxDone, expiredAt, subVars,
                  envVars, failedAt, cmdStarted, lateDispatch, ctxAtTerminal, joined >>

\* select: case <-done; then the deferred cancel()
Build_SelectDone ==
  /\ Alive
  /\ buildPc = "select"
  /\ doneClosed
  /\ buildPc' = "returned"
  /\ ctxDone' = TRUE
  /\ UNCHANGED << inputVars, pbPc, currentInstruction, cmdInstruction, pendingMsg,
                  buildInfoStatus, taskVars, chanVars, expiredAt, subVars, envVars,
                  failedAt, cmdStarted, lateDispatch, ctxAtTerminal, joined >>

\* resultChan <- "Build timed out or was cancelled"
Build_TimeoutMsg ==
  /\ Alive
  /\ buildPc = "timeoutMsg"
  /\ CanDeliver(resultClosed)
  /\ resultChan' = Append(resultChan, Msg("Build timed out or was cancelled", 0))
  /\ buildPc' = "timeoutInfo"
  /\ UNCHANGED << inputVars, pbPc, currentInstruction, cmdInstruction, pendingMsg,
                  buildInfoStatus, taskVars, buildInfoChan, resultClosed,
                  infoClosed, doneClosed, ctxDone, expiredAt, subVars, envVars,
                  failedAt, cmdStarted, lateDispatch, ctxAtTerminal, joined >>

\* buildInfoChan <- BuildInfo{Status: statusFailed}; return
Build_TimeoutInfo ==
  /\ Alive
  /\ buildPc = "timeoutInfo"
  /\ CanDeliver(infoClosed)
  /\ buildInfoChan' = Append(buildInfoChan, BuildInfo(statusFailed, "build"))
  /\ buildPc' = "returned"
  /\ UNCHANGED << inputVars, pbPc, currentInstruction, cmdInstruction, pendingMsg,
                  buildInfoStatus, taskVars, resultChan, resultClosed, infoClosed,
                  doneClosed, ctxDone, expiredAt, subVars, envVars, failedAt,
                  cmdStarted, lateDispatch, ctxAtTerminal, joined >>

\* build() sends on a sink that processBuild has closed meanwhile
Build_SendPanic ==
  /\ Alive
  /\ \/ buildPc = "timeoutMsg" /\ resultClosed
     \/ buildPc = "timeoutInfo" /\ infoClosed
  /\ panicked' = TRUE
  /\ UNCHANGED << inputVars, pbPc, currentInstruction, cmdInstruction, pendingMsg,
                  buildInfoStatus, taskVars, chanVars, buildVars, subVars,
                  rootDone, consumerPc, mainExited, failedAt, cmdStarted, lateDispatch,
                  ctxAtTerminal, joined >>

\* ------------------------------------------------------------ environment

\* the CLI goroutine leaves its receive loop once either sink is closed
Consumer_Exit ==
  /\ Alive
  /\ consumerPc = "reading"
  /\ (infoClosed \/ resultClosed)
  /\ consumerPc' = "exited"
  /\ UNCHANGED << inputVars, pbPc, currentInstruction, cmdInstruction, pendingMsg,
                  buildInfoStatus, taskVars, chanVars, buildVars, subVars,
                  rootDone, panicked, mainExited, failedAt, cmdStarted, lateDispatch,
                  ctxAtTerminal, joined >>

\* Run: build() has returned and <-done of the receive goroutine; Run returns
\* and main exits, which ends every goroutine still running
Run_Return ==
  /\ Alive
  /\ buildPc = "returned"
  /\ consumerPc = "exited"
  /\ mainExited' = TRUE
  /\ UNCHANGED << inputVars, pbPc, currentInstruction, cmdInstruction, pendingMsg,
                  buildInfoStatus, taskVars, chanVars, buildVars, subVars,
                  rootDone, consumerPc, panicked, failedAt, cmdStarted,
                  lateDispatch, ctxAtTerminal, joined >>

\* SIGINT/SIGTERM: the signal goroutine cancels main's root context
Signal ==
  /\ Alive
  /\ ~rootDone
  /\ rootDone' = TRUE
  /\ UNCHANGED << inputVars, pbPc, currentInstruction, cmdInstruction, pendingMsg,
                  buildInfoStatus, taskVars, chanVars, buildVars, subVars,
                  consumerPc, panicked, mainExited, failedAt, cmdStarted, lateDispatch,
                  ctxAtTerminal, joined >>

\* -------------------------------------------------------------- sub-builds

\* the nested build()'s own context.WithTimeout deadline expires
Sub_Deadline(i) ==
  /\ Alive
  /\ sub[i] = "running"
  /\ ~subCtx[i]
  /\ subCtx' = [subCtx EXCEPT ![i] = TRUE]
  /\ UNCHANGED << inputVars, pbPc, currentInstruction, cmdInstruction, pendingMsg,
                  buildInfoStatus, taskVars, chanVars, buildVars, sub, envVars,
                  failedAt, cmdStarted, lateDispatch, ctxAtTerminal, joined >>

\* the nested build ends: the status forwarder reports its terminal status on
\* the parent's result sink, both forwarders finish, build() runs cancel()
Sub_Finish(i) ==
  /\ Alive
  /\ sub[i] = "running"
  /\ CanDeliver(resultClosed)
  /\ resultChan' = Append(resultChan, Msg("Sub-build completed with status", 0))
  /\ sub' = [sub EXCEPT ![i] = "done"]
  /\ subCtx' = [subCtx EXCEPT ![i] = TRUE]
  /\ UNCHANGED << inputVars, pbPc, currentInstruction, cmdInstruction, pendingMsg,
                  buildInfoStatus, taskVars, buildInfoChan, resultClosed,
                  infoClosed, doneClosed, buildVars, envVars, failedAt,
                  cmdStarted, lateDispatch, ctxAtTerminal, joined >>

\* a forwarder of a nested build that outlived its SUB sends on the parent's
\* result sink after the parent has closed it
Sub_SendPanic(i) ==
  /\ Alive
  /\ sub[i] = "running"
  /\ resultClosed
  /\ panicked' = TRUE
  /\ UNCHANGED << inputVars, pbPc, currentInstruction, cmdInstruction, pendingMsg,
                  buildInfoStatus, taskVars, chanVars, buildVars, subVars,
                  rootDone, consumerPc, mainExited, failedAt, cmdStarted, lateDispatch,
                  ctxAtTerminal, joined >>

\* ------------------------------------------------------------ specification

Next ==
  \/ PB_Start
  \/ PB_PreCheck
  \/ PB_Parse
  \/ PB_Cancelled
  \/ PB_Cmd
  \/ PB_Star
  \/ PB_Seq
  \/ PB_SeqReturn
  \/ PB_LoopEnd
  \/ PB_Wait
  \/ PB_CmdReturn
  \/ PB_SendMsg
  \/ PB_SendInfo
  \/ PB_CloseInfo
  \/ PB_CloseResult
  \/ PB_CloseDone
  \/ \E i \in Idx : Task_Ok(i)
  \/ \E i \in Idx : Task_Err(i)
  \/ \E i \in Idx : Task_ErrMsg(i)
  \/ \E i \in Idx : Task_AppendRead(i)
  \/ \E i \in Idx : Task_AppendWrite(i)
  \/ \E i \in Idx : Task_SendPanic(i)
  \/ Deadline
  \/ Build_SelectTimeout
  \/ Build_SelectDone
  \/ Build_TimeoutMsg
  \/ Build_TimeoutInfo
  \/ Build_SendPanic
  \/ Consumer_Exit
  \/ Run_Return

\* One top-level build of a plan of sequential, `*` and CMD records.
Spec ==
  Init /\ [][Next]_vars

NextSub ==
  \/ Next
  \/ PB_Sub
  \/ PB_SubReturn
  \/ Signal
  \/ \E i \in Idx : Sub_Deadline(i)
  \/ \E i \in Idx : Sub_Finish(i)
  \/ \E i \in Idx : Sub_SendPanic(i)

\* The same build with the signal handler and the nested builds of SUB/FRM.
SpecSub ==
  InitSub /\ [][NextSub]_vars

TypeOK ==
  /\ instructions \in Plans \cup SubPlans
  /\ currentInstruction \in 0..MaxPlan
  /\ cmdInstruction \in 0..MaxPlan
  /\ wg \in 0..MaxPlan
  /\ concurrentErrors \subseteq Idx

\* ------------------------------------------------- the directive executor

\* Longest command string (in tokens) explored.
MaxCmdLen ==
  3

\* Command strings are sequences of these tokens: two command words, the
\* separator `;`, a blank, a single quote and the reference `$K`.
CmdTokens ==
  {"echo", "rm", ";", " ", "'", "$K"}

Commands ==
  SeqsUpTo(MaxCmdLen, CmdTokens)

\* Tokens that begin, and tokens that end, with a letter, digit or `_`.
StartsWord(t) ==
  t \in {"echo", "rm"}

EndsWord(t) ==
  t \in {"echo", "rm", "$K"}

\* The args maps explored: K unset, or set to a one-word value.  A map is a
\* set of <<name, value>> pairs.
ArgMaps ==
  {{}} \cup {{<< "K", v >>} : v \in {<< "echo" >>, << "rm" >>}}

HasArg(a, k) ==
  \E p \in a : p[1] = k

GetArg(a, k) ==
  (CHOOSE p \in a : p[1] = k)[2]

\* The name a reference token holds: `$K` and `${K}` hold K, `$X` and
\* `${X}` hold X, a name no args map has.
RefName(t) ==
  IF t \in {"$K", "${K}"} THEN "K" ELSE "X"

\* os.Expand reads the longest run of letters, digits and `_` after `$` as
\* the name, so `$K` is a reference to K only when no word follows it; a
\* name in braces ends at the `}`.
IsRef(s, i) ==
  \/ s[i] \in {"${K}", "${X}"}
  \/ s[i] \in {"$K", "$X"} /\ (i = Len(s) \/ ~StartsWord(s[i + 1]))

\* What os.Expand puts in place of token i: nothing for `${}` (bad syntax,
\* the characters are eaten), the mapping's result for a reference, the
\* token itself for other text.  The mapping of expandArgs gives the value
\* of a known name and "$" + name, without braces, for an unknown one.
ExpandAt(s, a, i) ==
  IF s[i] = "${}" THEN << >>
  ELSE IF IsRef(s, i) /\ HasArg(a, RefName(s[i]))
    THEN GetArg(a, RefName(s[i]))
  ELSE IF s[i] = "${K}" THEN << "$K" >>
  ELSE IF s[i] = "${X}" THEN << "$X" >>
  ELSE << s[i] >>

RECURSIVE ExpandFrom(_, _, _)
ExpandFrom(s, a, i) ==
  IF i > Len(s) THEN << >>
  ELSE ExpandAt(s, a, i) \o ExpandFrom(s, a, i + 1)

\* expandArgs: a known name gives its value, an unknown one "$" + name.
expandArgs(s, a) ==
  ExpandFrom(s, a, 1)

\* strings.TrimSpace(cmd) == ""
TrimsToEmpty(cmd) ==
  \A i \in DOMAIN cmd : cmd[i] = " "

\* The word `rm` between two word boundaries.
HasWordRm(cmd) ==
  \E i \in DOMAIN cmd :
    /\ cmd[i] = "rm"
    /\ (i = 1 \/ ~EndsWord(cmd[i - 1]))
    /\ (i = Len(cmd) \/ ~StartsWord(cmd[i + 1]))

\* The messages of the disallowedPatterns that match cmd; of the table's
\* patterns only `;` and `\brm\b` can match a string of CmdTokens.
DenyReasons(cmd) ==
  {r \in {"semicolons ';'", "'rm' command"} :
     \/ r = "semicolons ';'" /\ \E i \in DOMAIN cmd : cmd[i] = ";"
     \/ r = "'rm' command" /\ HasWordRm(cmd)}

\* validateLinuxCommand: the results it can return for cmd.  The patterns
\* are tried in the iteration order of a Go map, so with several matching
\* patterns any of their messages can be the one returned.
validateLinuxCommand(cmd) ==
  IF TrimsToEmpty(cmd) THEN {"empty command"}
  ELSE IF DenyReasons(cmd) # {} THEN DenyReasons(cmd)
  ELSE IF Cardinality({i \in DOMAIN cmd : cmd[i] = "'"}) % 2 # 0
    THEN {"unmatched single quotes in command"}
  ELSE {"ok"}

\* The records followed: RUN and `*RUN` through executeInstruction, CMD
\* through executeCMD; a directive is its prefix followed by its name.
ExecDirectives ==
  {<< "RUN" >>, << "*", "RUN" >>, << "CMD" >>}

InitExec ==
  /\ IdleExcept("exec")
  /\ inst \in [Directive : ExecDirectives, Args : Commands]
  /\ args \in ArgMaps
  /\ expandedArgs = << >>
  /\ exPc = "start"
  /\ validated = {}
  /\ spawned = {}

\* processBuild hands a `*` record to executeInstructionConcurrent, which
\* trims the `*`, and any other record but CMD to executeInstruction, which
\* drops a leading character that is not alphanumeric.
Exec_Strip ==
  /\ exPc = "start"
  /\ inst.Directive # << "CMD" >>
  /\ inst' = [inst EXCEPT !.Directive =
                IF Len(@) > 1 /\ ~StartsWord(@[1]) THEN Tail(@) ELSE @]
  /\ exPc' = "switch"
  /\ UNCHANGED << args, expandedArgs, validated, spawned, notExecVars >>

\* case "RUN": expand, validate, and return the error of a rejected string
Exec_RunValidate ==
  /\ exPc = "switch"
  /\ inst.Directive = << "RUN" >>
  /\ expandedArgs' = expandArgs(inst.Args, args)
  /\ \E r \in validateLinuxCommand(expandedArgs') :
       IF r = "ok"
         THEN /\ validated' = validated \cup {expandedArgs'}
              /\ exPc' = "spawn"
         ELSE /\ exPc' = "returned"
              /\ UNCHANGED validated
  /\ UNCHANGED << inst, args, spawned, notExecVars >>

\* exec.Command("sh", "-c", expandedArgs).CombinedOutput()
Exec_RunSpawn ==
  /\ exPc = "spawn"
  /\ spawned' = spawned \cup {expandedArgs}
  /\ exPc' = "returned"
  /\ UNCHANGED << inst, args, expandedArgs, validated, notExecVars >>

\* executeCMD: exec.Command("sh", "-c", inst.Args).CombinedOutput()
Exec_Cmd ==
  /\ exPc = "start"
  /\ inst.Directive = << "CMD" >>
  /\ spawned' = spawned \cup {inst.Args}
  /\ exPc' = "returned"
  /\ UNCHANGED << inst, args, expandedArgs, validated, notExecVars >>

NextExec ==
  \/ Exec_Strip
  \/ Exec_RunValidate
  \/ Exec_RunSpawn
  \/ Exec_Cmd

\* One RUN, `*RUN` or CMD record taken through the executor.
SpecExec ==
  InitExec /\ [][NextExec]_vars

\* ---------------------------------------------------------- the plan parser

\* Longest plan file (in lines) explored.
MaxLines ==
  3

\* validDirectives: each directive name with the modifiers listed for it.
validDirectives ==
  [d \in {"ARG", "ENV", "RUN", "CMD", "DIR", "CPY", "WDR", "SUB", "FRM",
          "JET", "FMT", "BOX", "USE"} |->
     CASE d \in {"RUN", "CPY", "SUB"} -> {"*"}
       [] d = "FMT" -> {"^", "$", "&"}
       [] OTHER -> {}]

\* A line is a sequence of tokens: a modifier character, a directive name
\* (XXX is a name the table does not hold), a blank, the argument text `a`,
\* `#` and the backslash.  The heads explored, with and without modifier:
LineHeads ==
  {<< "RUN" >>, << "XXX" >>, << "*", "RUN" >>, << "*", "CPY" >>,
   << "*", "SUB" >>, << "^", "FMT" >>, << "$", "FMT" >>, << "&", "FMT" >>,
   << "*", "ARG" >>, << "*", "CMD" >>, << "*", "FMT" >>, << "^", "RUN" >>}

\* The lines explored: `head a` for each head, a line that continues, the
\* empty line, a blank line, a comment, a head with no argument, and a bare
\* argument with and without a continuation.
Lines ==
  {h \o << " ", "a" >> : h \in LineHeads}
    \cup {<< "RUN", " ", "a", "\\" >>, << >>, << " " >>, << "#", "a" >>,
          << "RUN" >>, << "a" >>, << "a", "\\" >>}

Files ==
  SeqsUpTo(MaxLines, Lines)

\* Characters strings.TrimSpace removes.
IsSpace(t) ==
  t \in {" ", "\n"}

RECURSIVE TrimLeft(_)
TrimLeft(l) ==
  IF l # << >> /\ IsSpace(Head(l)) THEN TrimLeft(Tail(l)) ELSE l

RECURSIVE TrimRight(_)
TrimRight(l) ==
  IF l # << >> /\ IsSpace(l[Len(l)])
    THEN TrimRight(SubSeq(l, 1, Len(l) - 1))
    ELSE l

TrimSpace(l) ==
  TrimRight(TrimLeft(l))

\* trimmedLine == "" || strings.HasPrefix(trimmedLine, "#")
SkipLine(l) ==
  IF TrimSpace(l) = << >> THEN TRUE ELSE Head(TrimSpace(l)) = "#"

\* A scanner that takes no line for a continuation.
NeverContinues(l) ==
  FALSE

\* strings.HasSuffix(line, "\\")
HasSuffixBackslash(l) ==
  l # << >> /\ l[Len(l)] = "\\"

\* strings.SplitN(line, " ", 2): the text before the first blank and, when
\* there is a blank, the text after it.
SplitN2(l) ==
  IF \E i \in DOMAIN l : l[i] = " "
    THEN LET i == CHOOSE j \in DOMAIN l :
                    l[j] = " " /\ \A k \in 1..(j - 1) : l[k] # " "
         IN  << SubSeq(l, 1, i - 1), SubSeq(l, i + 1, Len(l)) >>
    ELSE << l >>

\* The directive looked up: parts[0] without a leading `*`.
StripStar(h) ==
  IF h # << >> /\ Head(h) = "*" THEN Tail(h) ELSE h

\* _, ok := validDirectives[directive]
InTable(d) ==
  Len(d) = 1 /\ d[1] \in DOMAIN validDirectives

InitParse ==
  /\ IdleExcept("parse")
  /\ file \in Files
  /\ lineNo = 0
  /\ multiLineCommand = << >>
  /\ records = << >>
  /\ recLine = << >>
  /\ parsePc = "scan"
  /\ pfErr = NoParseError

\* scanner.Scan() gives an empty line or a comment: continue
Parse_Skip ==
  /\ parsePc = "scan"
  /\ lineNo < Len(file)
  /\ SkipLine(file[lineNo + 1])
  /\ lineNo' = lineNo + 1
  /\ UNCHANGED << file, multiLineCommand, records, recLine, parsePc, pfErr,
                  notParseVars >>

\* the line ends with a backslash: it goes to multiLineCommand, without the
\* backslash and with a newline
Parse_Continue ==
  /\ parsePc = "scan"
  /\ lineNo < Len(file)
  /\ ~SkipLine(file[lineNo + 1])
  /\ HasSuffixBackslash(file[lineNo + 1])
  /\ multiLineCommand' =
       multiLineCommand \o SubSeq(file[lineNo + 1], 1, Len(file[lineNo + 1]) - 1)
                        \o << "\n" >>
  /\ lineNo' = lineNo + 1
  /\ UNCHANGED << file, records, recLine, parsePc, pfErr, notParseVars >>

\* any other line, with multiLineCommand before it, is split and looked up;
\* it gives a record, or parseFile returns nil and an error
Parse_Record ==
  /\ parsePc = "scan"
  /\ lineNo < Len(file)
  /\ ~SkipLine(file[lineNo + 1])
  /\ ~HasSuffixBackslash(file[lineNo + 1])
  /\ LET line == multiLineCommand \o file[lineNo + 1]
         parts == SplitN2(line)
     IN  IF Len(parts) < 2
           THEN /\ pfErr' = [text |-> "invalid instruction", what |-> line]
                /\ parsePc' = "error"
                /\ records' = << >>
                /\ recLine' = << >>
         ELSE IF ~InTable(StripStar(parts[1]))
           THEN /\ pfErr' = [text |-> "invalid directive", what |-> parts[1]]
                /\ parsePc' = "error"
                /\ records' = << >>
                /\ recLine' = << >>
         ELSE /\ records' = Append(records, [Directive |-> parts[1],
                                             Args |-> TrimSpace(parts[2])])
              /\ recLine' = Append(recLine, lineNo + 1)
              /\ UNCHANGED << parsePc, pfErr >>
  /\ multiLineCommand' = << >>
  /\ lineNo' = lineNo + 1
  /\ UNCHANGED << file, notParseVars >>

\* the file has ended: an unfinished continuation is an error
Parse_EOF ==
  /\ parsePc = "scan"
  /\ lineNo = Len(file)
  /\ IF multiLineCommand # << >>
       THEN /\ pfErr' = [text |-> "unterminated multi-line command", what |-> << >>]
            /\ parsePc' = "error"
            /\ records' = << >>
            /\ recLine' = << >>
       ELSE /\ parsePc' = "ok"
            /\ UNCHANGED << pfErr, records, recLine >>
  /\ UNCHANGED << file, lineNo, multiLineCommand, notParseVars >>

NextParse ==
  \/ Parse_Skip
  \/ Parse_Continue
  \/ Parse_Record
  \/ Parse_EOF

\* parseFile run on one plan file.
SpecParse ==
  InitParse /\ [][NextParse]_vars

\* ---------------------------------------------------------- the worker pool

\* The initial value of minJobs, int(^uint(0) >> 1): the largest int (here
\* of a 32-bit build; it only has to exceed every queue length).
MaxInt ==
  2147483647

\* len(worker.Jobs): NewWorkerNode makes Jobs with make(chan Job), a channel
\* with no buffer, so no job is ever queued in it.
QueueLen(w) ==
  0

\* A scan that also moves to a worker with as many jobs.
NotMoreJobs(jobCount, minJobs) ==
  jobCount <= minJobs

\* if jobCount < minJobs
FewerJobs(jobCount, minJobs) ==
  jobCount < minJobs

\* The loop over globalWorkerPool from worker w on, with the worker selected
\* and the count found so far.
RECURSIVE ScanFrom(_, _, _)
ScanFrom(w, sel, minJobs) ==
  IF w > NumWorkers THEN sel
  ELSE IF FewerJobs(QueueLen(w), minJobs)
    THEN ScanFrom(w + 1, w, QueueLen(w))
    ELSE ScanFrom(w + 1, sel, minJobs)

InitPool ==
  /\ IdleExcept("pool")
  /\ jobCtx \in [Jobs -> {"nil", "live"}]
  /\ asPc = [j \in Jobs |-> "start"]
  /\ selectedWorker = [j \in Jobs |-> 0]
  /\ jobResult = [j \in Jobs |-> << >>]
  /\ jobCloses = [j \in Jobs |-> 0]
  /\ jobInfo = [j \in Jobs |-> << >>]
  /\ received = [w \in Workers |-> << >>]
  /\ lateSend = {}

\* if job.Context == nil
Assign_NilCheck(j) ==
  /\ asPc[j] = "start"
  /\ asPc' = [asPc EXCEPT ![j] = IF jobCtx[j] = "nil" THEN "nilMsg" ELSE "scan"]
  /\ UNCHANGED << jobCtx, selectedWorker, jobResult, jobCloses, jobInfo,
                  received, lateSend, notPoolVars >>

\* the loop that selects a worker
Assign_Scan(j) ==
  /\ asPc[j] = "scan"
  /\ selectedWorker' = [selectedWorker EXCEPT ![j] = ScanFrom(1, 0, MaxInt)]
  /\ asPc' = [asPc EXCEPT ![j] = "select"]
  /\ UNCHANGED << jobCtx, jobResult, jobCloses, jobInfo, received, lateSend,
                  notPoolVars >>

\* select, case selectedWorker.Jobs <- job: the worker's loop takes the job
\* from its channel in `case job := <-w.Jobs`, does `_ = job` and goes back
\* to its select
Assign_Send(j) ==
  /\ asPc[j] = "select"
  /\ received' = [received EXCEPT ![selectedWorker[j]] = Append(@, j)]
  /\ lateSend' = IF jobCtx[j] = "done" THEN lateSend \cup {j} ELSE lateSend
  /\ asPc' = [asPc EXCEPT ![j] = "returned"]
  /\ UNCHANGED << jobCtx, selectedWorker, jobResult, jobCloses, jobInfo,
                  notPoolVars >>

\* select, case <-job.Context.Done()
Assign_Cancelled(j) ==
  /\ asPc[j] = "select"
  /\ jobCtx[j] = "done"
  /\ asPc' = [asPc EXCEPT ![j] = "cancelMsg"]
  /\ UNCHANGED << jobCtx, selectedWorker, jobResult, jobCloses, jobInfo,
                  received, lateSend, notPoolVars >>

\* job.ResultChan <- "Error: job context is nil" / "Job cancelled before
\* assignment", read by the job's submitter
Assign_SendMsg(j) ==
  /\ asPc[j] \in {"nilMsg", "cancelMsg"}
  /\ jobResult' = [jobResult EXCEPT ![j] =
                     Append(@, IF asPc[j] = "nilMsg"
                                 THEN "Error: job context is nil"
                                 ELSE "Job cancelled before assignment")]
  /\ asPc' = [asPc EXCEPT ![j] = "close"]
  /\ UNCHANGED << jobCtx, selectedWorker, jobCloses, jobInfo, received,
                  lateSend, notPoolVars >>

\* close(job.ResultChan)
Assign_Close(j) ==
  /\ asPc[j] = "close"
  /\ jobCloses' = [jobCloses EXCEPT ![j] = @ + 1]
  /\ asPc' = [asPc EXCEPT ![j] = "returned"]
  /\ UNCHANGED << jobCtx, selectedWorker, jobResult, jobInfo, received,
                  lateSend, notPoolVars >>

\* the job's cancel token fires
Job_Cancel(j) ==
  /\ jobCtx[j] = "live"
  /\ jobCtx' = [jobCtx EXCEPT ![j] = "done"]
  /\ UNCHANGED << asPc, selectedWorker, jobResult, jobCloses, jobInfo,
                  received, lateSend, notPoolVars >>

\* A step of assignBuildToWorker(j), with the worker's receive.
AssignStep(j) ==
  \/ Assign_NilCheck(j)
  \/ Assign_Scan(j)
  \/ Assign_Send(j)
  \/ Assign_Cancelled(j)
  \/ Assign_SendMsg(j)
  \/ Assign_Close(j)

NextPool ==
  \/ \E j \in Jobs : Assign_NilCheck(j)
  \/ \E j \in Jobs : Assign_Scan(j)
  \/ \E j \in Jobs : Assign_Send(j)
  \/ \E j \in Jobs : Assign_Cancelled(j)
  \/ \E j \in Jobs : Assign_SendMsg(j)
  \/ \E j \in Jobs : Assign_Close(j)
  \/ \E j \in Jobs : Job_Cancel(j)

\* Concurrent calls of assignBuildToWorker on the started pool.  Every call
\* and every worker goroutine keeps being scheduled.
SpecPool ==
  InitPool /\ [][NextPool]_vars /\ \A j \in Jobs : WF_vars(AssignStep(j))

\* ------------------------------------------------------ the status registry

\* Most BuildInfo records sent to the registry.
MaxRecords ==
  3

BuildIds ==
  {"b1", "b2"}

\* The k-th record of the stream: a build id, a status, and k standing for
\* the other fields (StartTime, EndTime, WorkerNode) of that record.
Record(id, st, k) ==
  [ID |-> id, Status |-> st, n |-> k]

\* A registry that never deletes an entry.
UpdateNoDelete(m, rec) ==
  {e \in m : e.ID # rec.ID} \cup {rec}

\* switch buildInfo.Status: statusRunning stores the record under its ID,
\* statusCompleted and statusFailed delete the ID.  The map is a set of
\* records with one record per ID.
Update(m, rec) ==
  IF rec.Status = statusRunning
    THEN {e \in m : e.ID # rec.ID} \cup {rec}
    ELSE {e \in m : e.ID # rec.ID}

InitReg ==
  /\ IdleExcept("reg")
  /\ regPc = "select"
  /\ activeBuilds = {}
  /\ processed = << >>
  /\ published = << >>
  /\ inClosed = FALSE
  /\ regDone = FALSE

\* select, case buildInfo, ok := <-buildInfoChan with ok: a sender hands the
\* registry the next record and the registry updates activeBuilds
Reg_Receive(id, st) ==
  /\ regPc = "select"
  /\ ~inClosed
  /\ Len(processed) < MaxRecords
  /\ LET rec == Record(id, st, Len(processed) + 1)
     IN  /\ activeBuilds' = Update(activeBuilds, rec)
         /\ processed' = Append(processed, rec)
  /\ regPc' = "publish"
  /\ UNCHANGED << published, inClosed, regDone, notRegVars >>

\* outputChan <- activeBuilds: completes when the reader of the output
\* channel receives
Reg_Publish ==
  /\ regPc = "publish"
  /\ published' = Append(published, activeBuilds)
  /\ regPc' = "select"
  /\ UNCHANGED << activeBuilds, processed, inClosed, regDone, notRegVars >>

\* select, case <-buildInfoChan with !ok: return
Reg_InputClosed ==
  /\ regPc = "select"
  /\ inClosed
  /\ regPc' = "exited"
  /\ UNCHANGED << activeBuilds, processed, published, inClosed, regDone,
                  notRegVars >>

\* select, case <-done: return
Reg_Done ==
  /\ regPc = "select"
  /\ regDone
  /\ regPc' = "exited"
  /\ UNCHANGED << activeBuilds, processed, published, inClosed, regDone,
                  notRegVars >>

\* the sender closes buildInfoChan
Env_CloseInput ==
  /\ ~inClosed
  /\ inClosed' = TRUE
  /\ UNCHANGED << regPc, activeBuilds, processed, published, regDone,
                  notRegVars >>

\* close(done)
Env_Done ==
  /\ ~regDone
  /\ regDone' = TRUE
  /\ UNCHANGED << regPc, activeBuilds, processed, published, inClosed,
                  notRegVars >>

NextReg ==
  \/ \E id \in BuildIds, st \in {statusRunning, statusCompleted, statusFailed} :
       Reg_Receive(id, st)
  \/ Reg_Publish
  \/ Reg_InputClosed
  \/ Reg_Done
  \/ Env_CloseInput
  \/ Env_Done

\* listActiveBuilds with a sender and a reader that do as they please.  The
\* registry goroutine keeps being scheduled: it takes a return that stays
\* open to it.  Its send on outputChan waits for the reader.
SpecReg ==
  InitReg /\ [][NextReg]_vars /\ WF_vars(Reg_InputClosed) /\ WF_vars(Reg_Done)

\* ------------------------------------------------------------ properties

Range(q) ==
  {q[k] : k \in DOMAIN q}

Texts(q) ==
  {q[k].text : k \in DOMAIN q}

\* processBuild has sent its terminal record.
PbTerminalSent ==
  pbPc \in {"closeInfo", "closeResult", "closeDone", "exited"}

\* processBuild has sent the failure message it had pending.
PbMsgSent ==
  pbPc = "sendInfo" \/ PbTerminalSent

\* Every `*`-task spawned so far has completed (its wg.Done() has run).
TasksCompleted ==
  \A i \in Idx : task[i] \in {"none", "done"}

CmdIndices ==
  {i \in DOMAIN instructions : instructions[i] = "CMD"}

\* Position of the second CMD record of the plan.
SecondCmd ==
  CHOOSE i \in CmdIndices :
    Cardinality({j \in CmdIndices : j < i}) = 1

\* C1: the status sink starts with the one Running record, carries no Running
\* record after that, and once processBuild has finished ends with a terminal
\* record.
C1_StatusSinkOrder ==
  /\ (Len(buildInfoChan) >= 1 => buildInfoChan[1].status = statusRunning)
  /\ \A k \in DOMAIN buildInfoChan :
       k > 1 => buildInfoChan[k].status # statusRunning
  /\ (PbTerminalSent =>
        /\ Len(buildInfoChan) >= 2
        /\ Terminal(buildInfoChan[Len(buildInfoChan)].status))

\* C2: whenever executeCMD has been started, every `*`-task the build
\* spawned has completed.
C2_CmdAfterJoin ==
  cmdStarted => TasksCompleted /\ wg = 0

\* C2 witness: the CMD of a cleanly running plan has started after a
\* `*`-task of the same build completed.
C2_Witness ==
  /\ cmdStarted
  /\ \E i \in Idx : task[i] = "done"
  /\ taskErr = {}
  /\ failedAt = 0

\* C3: once a terminal record is on the status sink, or a sink is closed,
\* every `*`-task the build spawned has completed.
C3_TerminalAfterTasks ==
  (PbTerminalSent \/ infoClosed \/ resultClosed) => TasksCompleted

\* C4: after a parse failure or a failed sequential directive the build
\* sends the failure message and a terminal Failed record, dispatches no
\* later directive and does not run the pending CMD.
C4_FatalErrorStops ==
  /\ (failedAt # 0 =>
        /\ currentInstruction = failedAt
        /\ \A i \in Idx : i > failedAt => task[i] = "none"
        /\ ~cmdStarted
        /\ ~joined
        /\ pbPc \in {"sendMsg", "sendInfo", "closeInfo", "closeResult",
                     "closeDone", "exited"}
        /\ (PbMsgSent =>
              Msg("Error: executing instruction", failedAt) \in Range(resultChan))
        /\ (PbTerminalSent =>
              BuildInfo(statusFailed, "processBuild") \in Range(buildInfoChan)))
  /\ (parseErr /\ pbPc \notin {"start", "precheck", "parse"} /\ ~fileNameEmpty
        /\ pendingMsg.text # "Build cancelled" =>
        /\ currentInstruction = 0
        /\ TasksCompleted
        /\ ~cmdStarted
        /\ (PbMsgSent => "Error parsing file" \in Texts(resultChan))
        /\ (PbTerminalSent =>
              BuildInfo(statusFailed, "processBuild") \in Range(buildInfoChan)))
  /\ (BuildInfo(statusCompleted, "processBuild") \in Range(buildInfoChan) =>
        failedAt = 0 /\ ~parseErr)

\* C4 witness: a sequential directive failed with a CMD pending and a later
\* directive still in the plan, and processBuild has finished.
C4_Witness ==
  /\ failedAt # 0
  /\ failedAt < Len(instructions)
  /\ cmdInstruction # 0
  /\ pbPc = "exited"

\* C5: a plan with two or more CMD records never runs a CMD and never
\* reports Completed; the multiple-CMD failure is raised exactly at the
\* second CMD, and the loop never goes past it.
C5_MultipleCmd ==
  Cardinality(CmdIndices) >= 2 =>
    /\ ~cmdStarted
    /\ \A k \in DOMAIN buildInfoChan :
         buildInfoChan[k].status # statusCompleted
    /\ currentInstruction <= SecondCmd
    /\ (pendingMsg.text = "Error: multiple CMD directives are not allowed" <=>
          (currentInstruction = SecondCmd /\ pbPc # "loop"))
    /\ (PbTerminalSent =>
          BuildInfo(statusFailed, "processBuild") \in Range(buildInfoChan))

\* C5 witness: the build of a plan with two CMD records has ended Failed on
\* the multiple-CMD error.
C5_Witness ==
  /\ Cardinality(CmdIndices) >= 2
  /\ pbPc = "exited"
  /\ Msg("Error: multiple CMD directives are not allowed", SecondCmd)
       \in Range(resultChan)
  /\ buildInfoChan[Len(buildInfoChan)].status = statusFailed

\* C6: the concurrent-error failure is raised only at the join, after the
\* whole plan was dispatched and every `*`-task completed; and a join
\* reached with a failed `*`-task always ends Failed, without running CMD.
C6_ConcurrentErrorsCollected ==
  /\ (pendingMsg.text = "Errors occurred during concurrent execution" =>
        /\ joined
        /\ currentInstruction = Len(instructions)
        /\ TasksCompleted)
  /\ (joined /\ taskErr # {} =>
        /\ pendingMsg.text = "Errors occurred during concurrent execution"
        /\ TasksCompleted
        /\ ~cmdStarted
        /\ \A k \in DOMAIN buildInfoChan :
             buildInfoChan[k].status # statusCompleted)

\* C6 witness: a `*`-task failed, a sibling `*`-task completed without
\* error, a sequential directive later in the plan ran to its end, and the
\* build ended Failed at the join.
C6_Witness ==
  /\ joined
  /\ PbTerminalSent
  /\ failedAt = 0
  /\ \E i \in taskErr, j \in DOMAIN instructions, k \in Idx \ taskErr :
       /\ i < j
       /\ instructions[j] = "SEQ"
       /\ task[k] = "done"
  /\ buildInfoChan[Len(buildInfoChan)] = BuildInfo(statusFailed, "processBuild")

\* C7: when the token had fired before processBuild sent its terminal
\* record, the status the CLI ends up with (the last record it received) is
\* Failed.
C7_CancelledBuildFails ==
  (consumerPc = "exited" /\ PbTerminalSent /\ ctxAtTerminal) =>
    buildInfoChan[Len(buildInfoChan)].status = statusFailed

\* C8: no directive (sequential, `*`-task or deferred CMD) is dispatched
\* once the build's token has fired.
C8_NoDispatchAfterCancel ==
  ~lateDispatch

\* C9: a fired root token means a fired token for the running build, and a
\* fired root or parent token means a fired token for every running
\* sub-build.
C9_CancelPropagates ==
  /\ (rootDone /\ buildPc # "returned" => ctxDone)
  /\ \A i \in Idx :
       (sub[i] = "running" /\ (rootDone \/ ctxDone)) => subCtx[i]

\* C10: when the deadline expired before processBuild had sent its terminal
\* record, then once build() is over the result sink holds "Build timed out
\* or was cancelled", the status sink holds build()'s Failed record, and the
\* token is fired.
C10_TimeoutReported ==
  (/\ expiredAt \in {"start", "precheck", "parse", "loop", "execSeq", "wait",
                     "cmd", "sendMsg", "sendInfo"}
   /\ (buildPc = "returned" \/ panicked)) =>
    /\ ctxDone
    /\ "Build timed out or was cancelled" \in Texts(resultChan)
    /\ BuildInfo(statusFailed, "build") \in Range(buildInfoChan)

\* Number of messages with the given text on the result sink.
CountText(q, text) ==
  Cardinality({k \in DOMAIN q : q[k].text = text})

\* The build was not cancelled, its plan parsed, every sequential directive
\* and every `*`-task so far succeeded, and its CMD did not fail.
CleanRun ==
  /\ ~ctxDone
  /\ ~fileNameEmpty
  /\ ~parseErr
  /\ failedAt = 0
  /\ taskErr = {}
  /\ Cardinality(CmdIndices) <= 1
  /\ pendingMsg.text # "Error: executing CMD instruction"

\* C11: a build that is not cancelled, whose plan parses and whose
\* directives, `*`-tasks and CMD (if any) all succeed sends Completed as its
\* terminal record; its CMD has run exactly once if the plan has one and
\* not at all otherwise (the empty plan included).
C11_SuccessCompletes ==
  (PbTerminalSent /\ CleanRun) =>
    /\ buildInfoChan[Len(buildInfoChan)] = BuildInfo(statusCompleted, "processBuild")
    /\ Len(buildInfoChan) = 2
    /\ (cmdStarted <=> CmdIndices # {})
    /\ CountText(resultChan, "Done") = Cardinality(CmdIndices)

\* C11 witness: a plan with a sequential directive, a `*`-task and a CMD
\* has ended Completed with the CMD's output on the result sink.
C11_Witness ==
  /\ pbPc = "exited"
  /\ CleanRun
  /\ {"SEQ", "STAR", "CMD"} \subseteq Range(instructions)
  /\ CountText(resultChan, "Done") = 1
  /\ buildInfoChan[Len(buildInfoChan)].status = statusCompleted

\* C11 witness of the two named cases: the empty plan has ended Completed
\* with no CMD run.
C11_EmptyPlanWitness ==
  /\ pbPc = "exited"
  /\ CleanRun
  /\ instructions = << >>
  /\ ~cmdStarted
  /\ buildInfoChan[Len(buildInfoChan)].status = statusCompleted

\* C12: every command string handed to the shell, by RUN, `*RUN` or the
\* deferred CMD, is one the validator has accepted.
C12_ValidatorGates ==
  spawned \subseteq validated

\* A head made of a modifier and a directive whose table entry lists it.
PermittedHead(h) ==
  /\ Len(h) = 2
  /\ h[2] \in DOMAIN validDirectives
  /\ h[1] \in validDirectives[h[2]]

\* A head the directive table allows: a bare name, or a permitted modifier
\* and a name.
LegalHead(h) ==
  \/ Len(h) = 1 /\ h[1] \in DOMAIN validDirectives
  \/ PermittedHead(h)

\* C13: a line whose head is a modifier followed by a directive that permits
\* it is never refused as an invalid directive, for each of `*`, `^`, `$`, `&`.
C13_ModifiersRecognised ==
  pfErr.text = "invalid directive" => ~PermittedHead(pfErr.what)

\* C14: a plan that parses holds only records whose head the directive table
\* allows (a known name, with a modifier only if it is permitted for it),
\* and a failed parse returns no record.
C14_ForbiddenRejected ==
  /\ (parsePc = "ok" =>
        \A k \in DOMAIN records : LegalHead(records[k].Directive))
  /\ (parsePc = "error" => records = << >>)

\* A line that is neither empty (or blank) nor a comment.
IsContent(l) ==
  LET nb == {i \in DOMAIN l : l[i] # " "}
  IN  nb # {} /\ l[CHOOSE i \in nb : \A j \in nb : i <= j] # "#"

\* A content line that ends in a backslash, and one that does not.
OpenLines(f) ==
  {i \in DOMAIN f : IsContent(f[i]) /\ f[i][Len(f[i])] = "\\"}

ClosingLines(f) ==
  {i \in DOMAIN f : IsContent(f[i]) /\ f[i][Len(f[i])] # "\\"}

\* The plan ends inside a continuation.
EndsInContinuation(f) ==
  \E i \in OpenLines(f) : \A j \in ClosingLines(f) : j < i

\* The first line of the run of lines that the closing line c terminates.
GroupFirst(f, c) ==
  CHOOSE i \in 1..c :
    /\ IsContent(f[i])
    /\ \A j \in i..(c - 1) : j \notin ClosingLines(f)
    /\ \A j \in 1..(i - 1) :
         IsContent(f[j]) => \E m \in j..(c - 1) : m \in ClosingLines(f)

\* The text of a line before its first blank.
HeadTokens(l) ==
  IF \E i \in DOMAIN l : l[i] = " "
    THEN SubSeq(l, 1, (CHOOSE i \in DOMAIN l :
                         l[i] = " " /\ \A j \in 1..(i - 1) : l[j] # " ") - 1)
    ELSE l

\* C15: a plan that parses gives one record per closing line (a run of
\* continued lines and the line that ends it count once), in source order,
\* each with the head of the first line of its run; a plan that ends inside
\* a continuation never parses, and fails with "unterminated multi-line
\* command" unless an earlier line had already failed.
C15_RecordCount ==
  /\ (parsePc = "ok" =>
        /\ ~EndsInContinuation(file)
        /\ Len(records) = Cardinality(ClosingLines(file))
        /\ Len(recLine) = Len(records)
        /\ Range(recLine) = ClosingLines(file)
        /\ \A k, m \in DOMAIN recLine : k < m => recLine[k] < recLine[m]
        /\ \A k \in DOMAIN records :
             records[k].Directive = HeadTokens(file[GroupFirst(file, recLine[k])]))
  /\ (parsePc \in {"ok", "error"} /\ EndsInContinuation(file) =>
        /\ parsePc = "error"
        /\ \/ pfErr.text = "unterminated multi-line command"
           \/ \E i \in OpenLines(file) : lineNo < i)
  /\ (pfErr.text = "unterminated multi-line command" =>
        EndsInContinuation(file) /\ lineNo = Len(file))

\* C15 witness: a plan of a continued line, a comment inside the
\* continuation, the line that ends it and one more directive has parsed
\* into fewer records than it has lines.
C15_Witness ==
  /\ parsePc = "ok"
  /\ OpenLines(file) # {}
  /\ \E i \in OpenLines(file), j \in DOMAIN file :
       i < j /\ ~IsContent(file[j]) /\ \E c \in ClosingLines(file) : j < c
  /\ Len(records) >= 1
  /\ Len(records) < Len(file)

\* C15 witness of the failure: a plan that parsed a record and then ended
\* inside a continuation has failed as unterminated.
C15_UnterminatedWitness ==
  /\ parsePc = "error"
  /\ pfErr.text = "unterminated multi-line command"
  /\ ClosingLines(file) # {}

\* The job has been taken by a worker from its channel.
Enqueued(j) ==
  \E w \in Workers : j \in Range(received[w])

\* C16: every job a worker has received is eventually run: its status sink
\* gets a Running record and then a terminal record, and its result sink is
\* closed.
C16_QueuedJobRuns ==
  \A j \in Jobs :
    Enqueued(j) ~>
      (/\ Len(jobInfo[j]) >= 2
       /\ jobInfo[j][1] = statusRunning
       /\ Terminal(jobInfo[j][Len(jobInfo[j])])
       /\ jobCloses[j] >= 1)

\* The worker with the fewest queued jobs, the lowest id among equals.
LeastLoaded ==
  CHOOSE w \in Workers :
    \A v \in Workers :
      \/ QueueLen(w) < QueueLen(v)
      \/ QueueLen(w) = QueueLen(v) /\ w <= v

\* C17: the worker a call selects, and the worker that receives the job, is
\* the one with the fewest queued jobs, the lowest id among equals.
C17_LeastLoadedChosen ==
  \A j \in Jobs :
    /\ (asPc[j] \in {"select", "cancelMsg"} \/ Enqueued(j) =>
          selectedWorker[j] = LeastLoaded)
    /\ \A w \in Workers : j \in Range(received[w]) => w = LeastLoaded

\* C17 witness: two jobs assigned at the same time have both been sent to
\* the selected worker.
C17_Witness ==
  /\ \A j \in Jobs : Enqueued(j) /\ asPc[j] = "returned"
  /\ Len(received[LeastLoaded]) = MaxJobs

\* C18: a job whose token had fired before the send completed is not
\* enqueued; a call that did not enqueue its job has put its one message
\* ("Job cancelled before assignment", or the error for a job with no
\* token) on the result sink and closed the sink exactly once.
C18_CancelledNotAssigned ==
  \A j \in Jobs :
    /\ j \notin lateSend
    /\ jobCloses[j] <= 1
    /\ (jobCtx[j] = "nil" => ~Enqueued(j))
    /\ (asPc[j] = "returned" /\ ~Enqueued(j) =>
          /\ jobCloses[j] = 1
          /\ jobResult[j] = << IF jobCtx[j] = "nil"
                                 THEN "Error: job context is nil"
                                 ELSE "Job cancelled before assignment" >>)
    /\ (Enqueued(j) => jobResult[j] = << >> /\ jobCloses[j] = 0)

\* The records that are the most recent one of their build id.
LatestRecords ==
  {processed[k] : k \in {i \in DOMAIN processed :
                           \A m \in DOMAIN processed :
                             processed[m].ID = processed[i].ID => m <= i}}

\* C19: after any sequence of records the registry's mapping holds exactly
\* the most recent record of each id whose most recent record is Running, so
\* every entry it retains has status Running.
C19_OnlyRunningRetained ==
  /\ activeBuilds = {r \in LatestRecords : r.Status = statusRunning}
  /\ \A e \in activeBuilds : e.Status = statusRunning
  /\ \A e, f \in activeBuilds : e.ID = f.ID => e = f

\* C19 witness: a Running record was overwritten by a later Running record
\* of the same id, and another id was deleted by its terminal record.
C19_Witness ==
  /\ Len(processed) = MaxRecords
  /\ \E k, m \in DOMAIN processed :
       /\ k < m
       /\ processed[k].ID = processed[m].ID
       /\ processed[k].Status = statusRunning
       /\ processed[m] \in activeBuilds
  /\ \E k \in DOMAIN processed :
       /\ Terminal(processed[k].Status)
       /\ \A e \in activeBuilds : e.ID # processed[k].ID
  /\ Len(published) = MaxRecords

\* C20: once the done signal has fired or the input has been closed, the
\* registry task eventually terminates, whatever the reader is doing.
C20_RegistryTerminates ==
  (regDone \/ inClosed) ~> (regPc = "exited")

\* What a reader finds behind the k-th value it received from outputChan:
\* `outputChan <- activeBuilds` sends the map value, a reference to the one
\* map made by make(map[string]BuildInfo), so the reader holds the registry's
\* own map with whatever it contains now.
ReaderSees(k) ==
  activeBuilds

\* C21: readers get snapshots: the value published after update k equals the
\* mapping after update k and stays so while the registry processes later
\* records.
C21_ReadersGetSnapshots ==
  \A k \in DOMAIN published : ReaderSees(k) = published[k]

\* ------------------------------------------ the directives of one build

\* Longest plan explored when each directive's accesses are followed.
MaxDirPlan ==
  3

\* Thread 0 is processBuild's loop, thread i the goroutine of record i.
DirThreads ==
  0..MaxDirPlan

\* The records explored: ARG and `*ARG` of K (to a word the validator
\* accepts, to one it rejects, to a reference to K itself), RUN and `*RUN`
\* of `$K`, ENV of E to `$K`, a BOX and a USE of the same and of another
\* box, and a CMD of `$K`.
DirRecords ==
  {[Directive |-> d, Args |-> << "K", "=" >> \o v] :
     d \in {<< "ARG" >>, << "*", "ARG" >>},
     v \in {<< "echo" >>, << "rm" >>, << "$K" >>}}
    \cup {[Directive |-> d, Args |-> << "$K" >>] :
            d \in {<< "RUN" >>, << "*", "RUN" >>}}
    \cup {[Directive |-> << "ENV" >>, Args |-> << "E", "=", "$K" >>],
          [Directive |-> << "BOX" >>, Args |-> << "b", " ", "r", " ", "t" >>],
          [Directive |-> << "USE" >>, Args |-> << "b", " ", "echo" >>],
          [Directive |-> << "USE" >>, Args |-> << "c", " ", "echo" >>],
          [Directive |-> << "CMD" >>, Args |-> << "$K" >>]}

DirPlans ==
  SeqsUpTo(MaxDirPlan, DirRecords)

\* strings.HasPrefix(inst.Directive, "*")
IsStar(r) ==
  Head(r.Directive) = "*"

\* The directive the switch sees: executeInstructionConcurrent trims the
\* `*`, executeInstruction drops a leading non-alphanumeric character.
DirName(r) ==
  r.Directive[Len(r.Directive)]

\* The record thread t executes.
RecOf(t) ==
  dPlan[IF t = 0 THEN dCur ELSE t]

\* parts := strings.SplitN(inst.Args, "=", 2), key and value trimmed
KeyOf(a) ==
  a[1]

ValueOf(a) ==
  SubSeq(a, 3, Len(a))

\* An ARG that does not store its value.
SetNothing(a, k, v) ==
  a

\* args[key] = v
SetArg(a, k, v) ==
  {p \in a : p[1] # k} \cup {<< k, v >>}

\* Where the thread goes when executeInstruction returns: processBuild's
\* loop goes on to the next record or, on an error, returns; a `*`-task ends.
AfterReturn(t, ok) ==
  IF t = 0 THEN (IF ok THEN "next" ELSE "failed") ELSE "done"

\* An entry of the history.
Did(t, what, text, ok) ==
  [i |-> IF t = 0 THEN dCur ELSE t, what |-> what, text |-> text,
   env |-> dEnv, ok |-> ok]

InitDir ==
  /\ IdleExcept("dir")
  /\ dPlan \in DirPlans
  /\ dCur = 0
  /\ dThr = [t \in DirThreads |-> IF t = 0 THEN "next" ELSE "idle"]
  /\ dArgs = {}
  /\ dLock = -1
  /\ dEnv = {}
  /\ dBoxes = [t \in DirThreads |-> {}]
  /\ dText = [t \in DirThreads |-> << >>]
  /\ dLog = << >>

\* cmdInstruction != nil when the loop is past record n
CmdStored(n) ==
  \E j \in 1..n : DirName(dPlan[j]) = "CMD"

\* len(concurrentErrors) > 0: a `*`-task's executeInstruction returned an
\* error
TaskFailed ==
  \E k \in DOMAIN dLog : ~dLog[k].ok /\ IsStar(dPlan[dLog[k].i])

\* for _, inst := range instructions: a CMD is stored for later (a second
\* one ends the build), a `*` record gets its goroutine and the loop goes
\* on, any other record is executed by the loop itself
Dir_Next ==
  /\ dThr[0] = "next"
  /\ IF dCur = Len(dPlan)
       THEN /\ dThr' = [dThr EXCEPT ![0] = "wait"]
            /\ UNCHANGED dCur
       ELSE /\ dCur' = dCur + 1
            /\ dThr' = IF DirName(dPlan[dCur + 1]) = "CMD"
                         THEN [dThr EXCEPT ![0] =
                                 IF CmdStored(dCur) THEN "failed" ELSE "next"]
                       ELSE IF IsStar(dPlan[dCur + 1])
                         THEN [dThr EXCEPT ![dCur + 1] = "call"]
                         ELSE [dThr EXCEPT ![0] = "call"]
  /\ UNCHANGED << dPlan, dArgs, dLock, dEnv, dBoxes, dText, dLog, notDirVars >>

\* wg.Wait(), then the test of concurrentErrors and of cmdInstruction
Dir_Wait ==
  /\ dThr[0] = "wait"
  /\ \A t \in 1..Len(dPlan) : dThr[t] \in {"idle", "done"}
  /\ dThr' = [dThr EXCEPT ![0] =
                IF TaskFailed THEN "failed"
                ELSE IF CmdStored(Len(dPlan)) THEN "cmd" ELSE "done"]
  /\ UNCHANGED << dPlan, dCur, dArgs, dLock, dEnv, dBoxes, dText, dLog,
                  notDirVars >>

\* *cmdInstruction at the end of the loop.  cmdInstruction = &inst is the
\* address of the range variable: where every iteration has its own
\* variable (the language from go 1.22 on) it still holds the CMD record,
\* where the loop has one variable (before) it holds the last record the
\* loop took.  The source names no language version.
CmdDeref ==
  {CHOOSE j \in 1..Len(dPlan) : DirName(dPlan[j]) = "CMD", Len(dPlan)}

\* executeCMD(*cmdInstruction, env, ...): exec.Command("sh", "-c",
\* inst.Args) with cmd.Env = os.Environ() and the entries of processBuild's
\* env map, which is empty.  The entry keeps the place of the CMD record and
\* the command that ran.
Dir_Cmd ==
  /\ dThr[0] = "cmd"
  /\ \E c \in CmdDeref :
       dLog' = Append(dLog, [i |-> CHOOSE j \in 1..Len(dPlan) :
                                     DirName(dPlan[j]) = "CMD",
                             what |-> "CMD", text |-> dPlan[c].Args,
                             env |-> dEnv, ok |-> TRUE])
  /\ dThr' = [dThr EXCEPT ![0] = "done"]
  /\ UNCHANGED << dPlan, dCur, dArgs, dLock, dEnv, dBoxes, dText, notDirVars >>

\* executeInstruction is entered: var boxes map[string]BoxInfo;
\* if boxes == nil { boxes = make(map[string]BoxInfo) }
Dir_Call(t) ==
  /\ dThr[t] = "call"
  /\ dBoxes' = [dBoxes EXCEPT ![t] = {}]
  /\ dThr' = [dThr EXCEPT ![t] = "switch"]
  /\ UNCHANGED << dPlan, dCur, dArgs, dLock, dEnv, dText, dLog, notDirVars >>

\* case "ARG": argsMutex.Lock()
Dir_ArgLock(t) ==
  /\ dThr[t] = "switch"
  /\ DirName(RecOf(t)) = "ARG"
  /\ dLock = -1
  /\ dLock' = t
  /\ dThr' = [dThr EXCEPT ![t] = "write"]
  /\ UNCHANGED << dPlan, dCur, dArgs, dEnv, dBoxes, dText, dLog, notDirVars >>

\* args[key] = expandArgs(value, args): the statement starts to use the map
Dir_WriteBegin(t) ==
  /\ dThr[t] = "write"
  /\ dThr' = [dThr EXCEPT ![t] = "writing"]
  /\ UNCHANGED << dPlan, dCur, dArgs, dLock, dEnv, dBoxes, dText, dLog,
                  notDirVars >>

\* args[key] = expandArgs(value, args): the value is stored
Dir_WriteEnd(t) ==
  /\ dThr[t] = "writing"
  /\ LET a == RecOf(t).Args
         v == expandArgs(ValueOf(a), dArgs)
     IN  /\ dArgs' = SetArg(dArgs, KeyOf(a), v)
         /\ dLog' = Append(dLog, Did(t, "ARG", v, TRUE))
  /\ dThr' = [dThr EXCEPT ![t] = "unlock"]
  /\ UNCHANGED << dPlan, dCur, dLock, dEnv, dBoxes, dText, notDirVars >>

\* argsMutex.Unlock(), return nil
Dir_Unlock(t) ==
  /\ dThr[t] = "unlock"
  /\ dLock' = -1
  /\ dThr' = [dThr EXCEPT ![t] = AfterReturn(t, TRUE)]
  /\ UNCHANGED << dPlan, dCur, dArgs, dEnv, dBoxes, dText, dLog, notDirVars >>

\* case "ENV", case "RUN": expandArgs(..., args) starts to read the map
Dir_ReadBegin(t) ==
  /\ dThr[t] = "switch"
  /\ DirName(RecOf(t)) \in {"ENV", "RUN"}
  /\ dThr' = [dThr EXCEPT ![t] = "reading"]
  /\ UNCHANGED << dPlan, dCur, dArgs, dLock, dEnv, dBoxes, dText, dLog,
                  notDirVars >>

\* expandArgs returns
Dir_ReadEnd(t) ==
  /\ dThr[t] = "reading"
  /\ LET a == RecOf(t).Args
     IN  dText' = [dText EXCEPT ![t] =
                     expandArgs(IF DirName(RecOf(t)) = "ENV"
                                  THEN ValueOf(a) ELSE a, dArgs)]
  /\ dLog' = Append(dLog, Did(t, "EXPAND", dText'[t], TRUE))
  /\ dThr' = [dThr EXCEPT ![t] = "use"]
  /\ UNCHANGED << dPlan, dCur, dArgs, dLock, dEnv, dBoxes, notDirVars >>

\* case "ENV": os.Setenv(key, expandedValue) under envMutex
Dir_Env(t) ==
  /\ dThr[t] = "use"
  /\ DirName(RecOf(t)) = "ENV"
  /\ dEnv' = SetArg(dEnv, KeyOf(RecOf(t).Args), dText[t])
  /\ dLog' = Append(dLog, Did(t, "ENV", dText[t], TRUE))
  /\ dThr' = [dThr EXCEPT ![t] = AfterReturn(t, TRUE)]
  /\ UNCHANGED << dPlan, dCur, dArgs, dLock, dBoxes, dText, notDirVars >>

\* case "RUN": validateLinuxCommand(expandedArgs), then the shell, which
\* inherits the process environment
Dir_Run(t) ==
  /\ dThr[t] = "use"
  /\ DirName(RecOf(t)) = "RUN"
  /\ \E r \in validateLinuxCommand(dText[t]) :
       /\ dLog' = Append(dLog, Did(t, "RUN", dText[t], r = "ok"))
       /\ dThr' = [dThr EXCEPT ![t] = AfterReturn(t, r = "ok")]
  /\ UNCHANGED << dPlan, dCur, dArgs, dLock, dEnv, dBoxes, dText, notDirVars >>

\* case "BOX": boxes[boxName] = BoxInfo{repository, tag}
Dir_Box(t) ==
  /\ dThr[t] = "switch"
  /\ DirName(RecOf(t)) = "BOX"
  /\ LET a == RecOf(t).Args
     IN  /\ dBoxes' = [dBoxes EXCEPT ![t] =
                         {b \in @ : b[1] # a[1]} \cup {<< a[1], a[3], a[5] >>}]
         /\ dLog' = Append(dLog, Did(t, "BOX", << a[1] >>, TRUE))
  /\ dThr' = [dThr EXCEPT ![t] = AfterReturn(t, TRUE)]
  /\ UNCHANGED << dPlan, dCur, dArgs, dLock, dEnv, dText, notDirVars >>

\* case "USE": boxInfo, ok := boxes[boxName]; "box not found" without ok,
\* execInContainer with ok
Dir_Use(t) ==
  /\ dThr[t] = "switch"
  /\ DirName(RecOf(t)) = "USE"
  /\ LET a == RecOf(t).Args
         ok == \E b \in dBoxes[t] : b[1] = a[1]
     IN  /\ dLog' = Append(dLog, Did(t, "USE", << a[1] >>, ok))
         /\ dThr' = [dThr EXCEPT ![t] = AfterReturn(t, ok)]
  /\ UNCHANGED << dPlan, dCur, dArgs, dLock, dEnv, dBoxes, dText, notDirVars >>

\* A read of the args map that runs while another goroutine writes it: the
\* Go runtime can stop the process ("concurrent map read and map write").
Dir_Fatal ==
  /\ \E t, u \in DirThreads :
       t # u /\ dThr[t] = "writing" /\ dThr[u] = "reading"
  /\ dThr' = [t \in DirThreads |-> "crashed"]
  /\ UNCHANGED << dPlan, dCur, dArgs, dLock, dEnv, dBoxes, dText, dLog,
                  notDirVars >>

NextDir ==
  \/ Dir_Next
  \/ Dir_Wait
  \/ Dir_Cmd
  \/ \E t \in DirThreads : Dir_Call(t)
  \/ \E t \in DirThreads : Dir_ArgLock(t)
  \/ \E t \in DirThreads : Dir_WriteBegin(t)
  \/ \E t \in DirThreads : Dir_WriteEnd(t)
  \/ \E t \in DirThreads : Dir_Unlock(t)
  \/ \E t \in DirThreads : Dir_ReadBegin(t)
  \/ \E t \in DirThreads : Dir_ReadEnd(t)
  \/ \E t \in DirThreads : Dir_Env(t)
  \/ \E t \in DirThreads : Dir_Run(t)
  \/ \E t \in DirThreads : Dir_Box(t)
  \/ \E t \in DirThreads : Dir_Use(t)
  \/ Dir_Fatal

\* One build's records taken through executeInstruction by processBuild's
\* loop and by the goroutines of its `*` records.
SpecDir ==
  InitDir /\ [][NextDir]_vars

\* Thread t is inside a statement that reads or writes the args map.
UsesArgs(t) ==
  dThr[t] \in {"reading", "writing"}

\* C22: in no interleaving of a build's sequential directives and `*`-tasks
\* does a read of args by expansion, or another write, overlap a write of
\* args by ARG without the lock being held by the thread that reads or
\* writes.
C22_ArgsLockProtects ==
  \A t, u \in DirThreads :
    t # u /\ dThr[t] = "writing" /\ UsesArgs(u) => dLock = u

\* C23: within one build, a USE passes its box lookup if and only if an
\* earlier BOX of the same build registered the name it uses.
C23_UseFindsBox ==
  \A k \in DOMAIN dLog :
    dLog[k].what = "USE" =>
      (dLog[k].ok <=>
         \E j \in 1..(k - 1) :
           dLog[j].what = "BOX" /\ dLog[j].text = dLog[k].text)

\* ------------------------------------------------------- main and its command

\* The command lines explored: a flag parseFlags rejects, --help, --version,
\* a command that is not registered, a command with --help, a command with
\* the wrong number of arguments, `build`, and another registered command.
CommandLines ==
  {"flagError", "help", "version", "unknown", "cmdHelp", "badArgs", "build",
   "other"}

\* The ways cmd.Run can end.  The build command's Run returns nil once the
\* build has ended, whatever lastBuildInfo.Status is, and an error when its
\* flags do not parse or no plan file is found.
RunResults(c) ==
  IF c = "build" THEN {"Completed", "Failed", "error"} ELSE {"nil", "error"}

\* The process has not exited.
Running ==
  exitCode = -1

\* The exit status when main returns: main returns normally after it has
\* logged the error of handleSubcommands, so the status is 0.
ExitOnReturn(err) ==
  0

InitMain ==
  /\ IdleExcept("main")
  /\ mIn \in CommandLines
  /\ mainPc = "flags"
  /\ hsPc = "none"
  /\ runPc = "none"
  /\ runResult = "none"
  /\ hsErr = "none"
  /\ mRoot = FALSE
  /\ mDone = FALSE
  /\ exitCode = -1

\* the signal goroutine: <-sigChan, cancel()
Main_Signal ==
  /\ Running
  /\ ~mRoot
  /\ mRoot' = TRUE
  /\ UNCHANGED << mIn, mainPc, hsPc, runPc, runResult, hsErr, mDone, exitCode,
                  notMainVars >>

\* parseFlags: logger.Fatalf on an error, return on --help and --version,
\* else start the goroutine of handleSubcommands
Main_Flags ==
  /\ Running
  /\ mainPc = "flags"
  /\ IF mIn = "flagError"
       THEN /\ exitCode' = 1
            /\ mainPc' = "exited"
            /\ UNCHANGED hsPc
       ELSE IF mIn \in {"help", "version"}
         THEN /\ exitCode' = ExitOnReturn("nil")
              /\ mainPc' = "exited"
              /\ UNCHANGED hsPc
         ELSE /\ mainPc' = "select"
              /\ hsPc' = "start"
              /\ UNCHANGED exitCode
  /\ UNCHANGED << mIn, runPc, runResult, hsErr, mRoot, mDone, notMainVars >>

\* handleSubcommands up to its select: the errors of an unknown command and
\* of validateArgs, showCommandHelp, else the goroutine of cmd.Run; when it
\* returns here the caller logs the error and closes done
HS_Start ==
  /\ Running
  /\ hsPc = "start"
  /\ IF mIn \in {"unknown", "badArgs", "cmdHelp"}
       THEN /\ hsErr' = (IF mIn = "cmdHelp" THEN "nil" ELSE "invalid input")
            /\ hsPc' = "returned"
            /\ mDone' = TRUE
            /\ UNCHANGED runPc
       ELSE /\ runPc' = "running"
            /\ hsPc' = "select"
            /\ UNCHANGED << hsErr, mDone >>
  /\ UNCHANGED << mIn, mainPc, runResult, mRoot, exitCode, notMainVars >>

\* cmd.Run returns and its result is put in errChan (buffered)
Run_Finish(r) ==
  /\ Running
  /\ runPc = "running"
  /\ runResult' = r
  /\ runPc' = "returned"
  /\ UNCHANGED << mIn, mainPc, hsPc, hsErr, mRoot, mDone, exitCode,
                  notMainVars >>

\* handleSubcommands, select, case <-ctx.Done(): return ctx.Err(); the
\* caller logs "Operation canceled" and closes done
HS_Cancelled ==
  /\ Running
  /\ hsPc = "select"
  /\ mRoot
  /\ hsErr' = "context canceled"
  /\ hsPc' = "returned"
  /\ mDone' = TRUE
  /\ UNCHANGED << mIn, mainPc, runPc, runResult, mRoot, exitCode, notMainVars >>

\* handleSubcommands, select, case err := <-errChan: return err; the caller
\* logs an error and closes done
HS_RunReturned ==
  /\ Running
  /\ hsPc = "select"
  /\ runPc = "returned"
  /\ hsErr' = (IF runResult = "error" THEN "error" ELSE "nil")
  /\ hsPc' = "returned"
  /\ mDone' = TRUE
  /\ UNCHANGED << mIn, mainPc, runPc, runResult, mRoot, exitCode, notMainVars >>

\* main, select, case <-ctx.Done(): go on to <-done
Main_SelectCancelled ==
  /\ Running
  /\ mainPc = "select"
  /\ mRoot
  /\ mainPc' = "waitDone"
  /\ UNCHANGED << mIn, hsPc, runPc, runResult, hsErr, mRoot, mDone, exitCode,
                  notMainVars >>

\* main, select, case <-done, and the <-done of the other case; main then
\* logs "Exiting program" and returns, which ends every goroutine
Main_Exit ==
  /\ Running
  /\ mainPc \in {"select", "waitDone"}
  /\ mDone
  /\ mainPc' = "exited"
  /\ exitCode' = ExitOnReturn(hsErr)
  /\ UNCHANGED << mIn, hsPc, runPc, runResult, hsErr, mRoot, mDone,
                  notMainVars >>

NextMain ==
  \/ Main_Signal
  \/ Main_Flags
  \/ HS_Start
  \/ \E r \in RunResults(mIn) : Run_Finish(r)
  \/ HS_Cancelled
  \/ HS_RunReturned
  \/ Main_SelectCancelled
  \/ Main_Exit

\* One command line taken through main.
SpecMain ==
  InitMain /\ [][NextMain]_vars

\* The run met an operational error: a flag or command line that is
\* refused, a command that returned an error, a build that ended Failed, or
\* a cancellation.
OperationalError ==
  \/ mIn \in {"flagError", "unknown", "badArgs"}
  \/ hsErr \notin {"none", "nil"}
  \/ runResult \in {"Failed", "error"}

\* C24: the process exit code is 0 on success and 1 on any operational
\* error; in particular a build whose terminal status is Failed exits with 1.
C24_ExitCodeTellsFailure ==
  mainPc = "exited" => exitCode = (IF OperationalError THEN 1 ELSE 0)

\* C25: after SIGINT or SIGTERM the process exits only after the in-flight
\* work has finished: the command's Run function has returned before main
\* exits.
C25_ExitWaitsForRun ==
  mainPc = "exited" /\ mRoot => runPc # "running"

\* ------------------------------------------------- a synchronous SUB or FRM

\* Most messages the sub-build's processBuild sends on its result sink.
MaxSubMsgs ==
  2

\* Every variable of the SUB but the positions of its five goroutines.
fwdData ==
  << fCtx, fCeil, fResClosed, fInfoClosed, fHeld, fEmitted, fOut, fPanic >>

\* The state when buildFunc has started build() and its two forwarders.
InitFwd ==
  /\ IdleExcept("fwd")
  /\ fPb = "start"
  /\ fBuild = "select"
  /\ fRf = "recv"
  /\ fIf = "recv"
  /\ fMain = "select"
  /\ fCtx = FALSE
  /\ fCeil = FALSE
  /\ fResClosed = FALSE
  /\ fInfoClosed = FALSE
  /\ fHeld = "none"
  /\ fEmitted = << >>
  /\ fOut = << >>
  /\ fPanic = FALSE

\* processBuild: job.BuildInfoChan <- buildInfo (Running), taken by the
\* status forwarder, which goes on ranging
Fwd_PbRunning ==
  /\ ~fPanic
  /\ fPb = "start"
  /\ fIf = "recv"
  /\ fPb' = "work"
  /\ UNCHANGED << fBuild, fRf, fIf, fMain, fwdData, notFwdVars >>

\* processBuild: job.ResultChan <- message (a directive's log line, an
\* error, "Build cancelled"), taken by the result forwarder
Fwd_PbEmit ==
  /\ ~fPanic
  /\ fPb = "work"
  /\ fRf = "recv"
  /\ Len(fEmitted) < MaxSubMsgs
  /\ fHeld' = "message"
  /\ fEmitted' = Append(fEmitted, "message")
  /\ fRf' = "fwd"
  /\ UNCHANGED << fPb, fBuild, fIf, fMain, fCtx, fCeil, fResClosed,
                  fInfoClosed, fOut, fPanic, notFwdVars >>

\* processBuild has set its terminal status
Fwd_PbFinish ==
  /\ ~fPanic
  /\ fPb = "work"
  /\ fPb' = "terminal"
  /\ UNCHANGED << fBuild, fRf, fIf, fMain, fwdData, notFwdVars >>

\* processBuild: job.BuildInfoChan <- buildInfo (Completed or Failed), taken
\* by the status forwarder
Fwd_PbTerminal ==
  /\ ~fPanic
  /\ fPb = "terminal"
  /\ fIf = "recv"
  /\ fIf' = "fwd"
  /\ fPb' = "closeInfo"
  /\ UNCHANGED << fBuild, fRf, fMain, fwdData, notFwdVars >>

\* defer close(job.BuildInfoChan)
Fwd_PbCloseInfo ==
  /\ ~fPanic
  /\ fPb = "closeInfo"
  /\ fInfoClosed' = TRUE
  /\ fPb' = "closeResult"
  /\ UNCHANGED << fBuild, fRf, fIf, fMain, fCtx, fCeil, fResClosed, fHeld,
                  fEmitted, fOut, fPanic, notFwdVars >>

\* defer close(job.ResultChan); processBuild returns and build()'s
\* goroutine closes done
Fwd_PbCloseResult ==
  /\ ~fPanic
  /\ fPb = "closeResult"
  /\ fResClosed' = TRUE
  /\ fPb' = "returned"
  /\ UNCHANGED << fBuild, fRf, fIf, fMain, fCtx, fCeil, fInfoClosed, fHeld,
                  fEmitted, fOut, fPanic, notFwdVars >>

\* the deadline of build()'s context.WithTimeout passes
Fwd_Deadline ==
  /\ ~fPanic
  /\ fBuild = "select"
  /\ ~fCtx
  /\ fCtx' = TRUE
  /\ UNCHANGED << fPb, fBuild, fRf, fIf, fMain, fCeil, fResClosed,
                  fInfoClosed, fHeld, fEmitted, fOut, fPanic, notFwdVars >>

\* build(), select, case <-ctx.Done()
Fwd_BuildSelectTimeout ==
  /\ ~fPanic
  /\ fBuild = "select"
  /\ fCtx
  /\ fBuild' = "timeoutMsg"
  /\ UNCHANGED << fPb, fRf, fIf, fMain, fwdData, notFwdVars >>

\* build(), select, case <-done
Fwd_BuildSelectDone ==
  /\ ~fPanic
  /\ fBuild = "select"
  /\ fPb = "returned"
  /\ fBuild' = "returned"
  /\ UNCHANGED << fPb, fRf, fIf, fMain, fwdData, notFwdVars >>

\* build(): resultChan <- "Build timed out or was cancelled", taken by the
\* result forwarder
Fwd_BuildTimeoutMsg ==
  /\ ~fPanic
  /\ fBuild = "timeoutMsg"
  /\ ~fResClosed
  /\ fRf = "recv"
  /\ fHeld' = "Build timed out or was cancelled"
  /\ fEmitted' = Append(fEmitted, "Build timed out or was cancelled")
  /\ fRf' = "fwd"
  /\ fBuild' = "timeoutInfo"
  /\ UNCHANGED << fPb, fIf, fMain, fCtx, fCeil, fResClosed, fInfoClosed,
                  fOut, fPanic, notFwdVars >>

\* build(): buildInfoChan <- BuildInfo{Status: statusFailed}, taken by the
\* status forwarder
Fwd_BuildTimeoutInfo ==
  /\ ~fPanic
  /\ fBuild = "timeoutInfo"
  /\ ~fInfoClosed
  /\ fIf = "recv"
  /\ fIf' = "fwd"
  /\ fBuild' = "returned"
  /\ UNCHANGED << fPb, fRf, fMain, fwdData, notFwdVars >>

\* build() sends on a sink that processBuild has closed
Fwd_BuildSendPanic ==
  /\ ~fPanic
  /\ \/ fBuild = "timeoutMsg" /\ fResClosed
     \/ fBuild = "timeoutInfo" /\ fInfoClosed
  /\ fPanic' = TRUE
  /\ UNCHANGED << fPb, fBuild, fRf, fIf, fMain, fCtx, fCeil, fResClosed,
                  fInfoClosed, fHeld, fEmitted, fOut, notFwdVars >>

\* result forwarder: resultChan <- "Sub-build <id>: " + result
Fwd_RfForward ==
  /\ ~fPanic
  /\ fRf = "fwd"
  /\ fOut' = Append(fOut, << "Sub-build", fHeld >>)
  /\ fHeld' = "none"
  /\ fRf' = "recv"
  /\ UNCHANGED << fPb, fBuild, fIf, fMain, fCtx, fCeil, fResClosed,
                  fInfoClosed, fEmitted, fPanic, notFwdVars >>

\* result forwarder: the range over subResultChan ends, resultDone <- true
\* is ready
Fwd_RfClosed ==
  /\ ~fPanic
  /\ fRf = "recv"
  /\ fResClosed
  /\ fRf' = "signal"
  /\ UNCHANGED << fPb, fBuild, fIf, fMain, fwdData, notFwdVars >>

\* status forwarder: resultChan <- "Sub-build <id> completed with status:
\* ..." after a terminal record; infoDone <- true is ready.  (Its other
\* exit, the range ending with no terminal record seen, is never taken:
\* the sink is closed only after processBuild's terminal record was taken.)
Fwd_IfForward ==
  /\ ~fPanic
  /\ fIf = "fwd"
  /\ fOut' = Append(fOut, << "Sub-build", "completed with status" >>)
  /\ fIf' = "signal"
  /\ UNCHANGED << fPb, fBuild, fRf, fMain, fCtx, fCeil, fResClosed,
                  fInfoClosed, fHeld, fEmitted, fPanic, notFwdVars >>

\* the SUB's time.After(5 * time.Minute) fires
Fwd_Ceiling ==
  /\ ~fPanic
  /\ ~fCeil
  /\ fCeil' = TRUE
  /\ UNCHANGED << fPb, fBuild, fRf, fIf, fMain, fCtx, fResClosed,
                  fInfoClosed, fHeld, fEmitted, fOut, fPanic, notFwdVars >>

\* buildFunc, select, case <-resultDone
Fwd_SelectResultDone ==
  /\ ~fPanic
  /\ fMain = "select"
  /\ fRf = "signal"
  /\ fRf' = "done"
  /\ fMain' = "waitInfo"
  /\ UNCHANGED << fPb, fBuild, fIf, fwdData, notFwdVars >>

\* buildFunc, select, case <-infoDone
Fwd_SelectInfoDone ==
  /\ ~fPanic
  /\ fMain = "select"
  /\ fIf = "signal"
  /\ fIf' = "done"
  /\ fMain' = "waitResult"
  /\ UNCHANGED << fPb, fBuild, fRf, fwdData, notFwdVars >>

\* buildFunc, select, case <-timeout: resultChan <- "Sub-build <id> timed
\* out", and the SUB returns
Fwd_SelectTimeout ==
  /\ ~fPanic
  /\ fMain = "select"
  /\ fCeil
  /\ fOut' = Append(fOut, << "Sub-build", "timed out" >>)
  /\ fMain' = "returned"
  /\ UNCHANGED << fPb, fBuild, fRf, fIf, fCtx, fCeil, fResClosed,
                  fInfoClosed, fHeld, fEmitted, fPanic, notFwdVars >>

\* buildFunc: <-infoDone after resultDone, and the SUB returns
Fwd_WaitInfo ==
  /\ ~fPanic
  /\ fMain = "waitInfo"
  /\ fIf = "signal"
  /\ fIf' = "done"
  /\ fMain' = "returned"
  /\ UNCHANGED << fPb, fBuild, fRf, fwdData, notFwdVars >>

\* buildFunc: <-resultDone after infoDone, and the SUB returns
Fwd_WaitResult ==
  /\ ~fPanic
  /\ fMain = "waitResult"
  /\ fRf = "signal"
  /\ fRf' = "done"
  /\ fMain' = "returned"
  /\ UNCHANGED << fPb, fBuild, fIf, fwdData, notFwdVars >>

NextFwd ==
  \/ Fwd_PbRunning
  \/ Fwd_PbEmit
  \/ Fwd_PbFinish
  \/ Fwd_PbTerminal
  \/ Fwd_PbCloseInfo
  \/ Fwd_PbCloseResult
  \/ Fwd_Deadline
  \/ Fwd_BuildSelectTimeout
  \/ Fwd_BuildSelectDone
  \/ Fwd_BuildTimeoutMsg
  \/ Fwd_BuildTimeoutInfo
  \/ Fwd_BuildSendPanic
  \/ Fwd_RfForward
  \/ Fwd_RfClosed
  \/ Fwd_IfForward
  \/ Fwd_Ceiling
  \/ Fwd_SelectResultDone
  \/ Fwd_SelectInfoDone
  \/ Fwd_SelectTimeout
  \/ Fwd_WaitInfo
  \/ Fwd_WaitResult

\* One synchronous SUB.  Every goroutine keeps being scheduled, the reader
\* of the parent's result sink keeps reading, and time passes.
SpecFwd ==
  InitFwd /\ [][NextFwd]_vars /\ WF_vars(NextFwd)

\* The messages of the sub-build that reached the parent's result sink.
Forwarded ==
  SelectSeq(fOut, LAMBDA m : m[2] \notin {"completed with status", "timed out"})

\* The SUB has returned and not through its 5-minute case.
ReturnedInTime ==
  fMain = "returned" /\ \A k \in DOMAIN fOut : fOut[k][2] # "timed out"

\* A SUB returns only after the sub-build's result stream was closed and its
\* terminal status observed, or after the ceiling; what the sub-build had
\* emitted by then was forwarded, prefixed, in order.
SubReturnsInOrder ==
  /\ (fMain = "returned" => (fResClosed /\ fIf = "done") \/ fCeil)
  /\ (ReturnedInTime =>
        Forwarded = [k \in DOMAIN fEmitted |-> << "Sub-build", fEmitted[k] >>])

\* C26: a synchronous SUB (and FRM) returns only after the sub-build's
\* result stream has been closed and its terminal status observed, or after
\* the 5-minute ceiling; the sub-build's messages are forwarded, prefixed,
\* onto the parent's result stream; and the directive always returns.
C26_SubAlwaysReturns ==
  [](SubReturnsInOrder) /\ <>(fMain = "returned")

\* ------------------------------------------- the validator on one string

InitVal ==
  /\ IdleExcept("val")
  /\ vCmd \in Commands
  /\ vFirst = "none"
  /\ vSecond = "none"

\* validateLinuxCommand(cmd), the first call
Val_First ==
  /\ vFirst = "none"
  /\ vFirst' \in validateLinuxCommand(vCmd)
  /\ UNCHANGED << vCmd, vSecond, notValVars >>

\* validateLinuxCommand(cmd) again, on the same string
Val_Second ==
  /\ vFirst # "none"
  /\ vSecond = "none"
  /\ vSecond' \in validateLinuxCommand(vCmd)
  /\ UNCHANGED << vCmd, vFirst, notValVars >>

NextVal ==
  \/ Val_First
  \/ Val_Second

\* One command string validated twice.
SpecVal ==
  InitVal /\ [][NextVal]_vars

\* The string is non-empty after trimming, has an even number of single
\* quotes and matches no pattern of the deny list.
Acceptable(cmd) ==
  /\ ~TrimsToEmpty(cmd)
  /\ Cardinality({i \in DOMAIN cmd : cmd[i] = "'"}) % 2 = 0
  /\ DenyReasons(cmd) = {}

\* C27: the validator's verdict is a function of the command string alone:
\* a string is accepted iff it is non-empty after trimming, has matched
\* quotes and matches no deny-list pattern, and two validations of the same
\* string return the same reason.
C27_VerdictIsFunction ==
  /\ (vFirst # "none" => (vFirst = "ok" <=> Acceptable(vCmd)))
  /\ (vSecond # "none" => vSecond = vFirst)

\* ------------------------------------------------ the expander on one string

\* Longest string (in tokens) given to expandArgs.
MaxExpLen ==
  3

\* The strings explored are sequences of these tokens: a word, a blank, the
\* references to K and to the unknown name X, bare and in braces, and `${}`.
ExpTokens ==
  {"echo", " ", "$K", "${K}", "$X", "${X}", "${}"}

InitExp ==
  /\ IdleExcept("exp")
  /\ xS \in SeqsUpTo(MaxExpLen, ExpTokens)
  /\ xArgs \in ArgMaps
  /\ xOut = "none"

\* expandArgs(s, args)
Exp_Call ==
  /\ xOut = "none"
  /\ xOut' = expandArgs(xS, xArgs)
  /\ UNCHANGED << xS, xArgs, notExpVars >>

NextExp ==
  Exp_Call

\* One string expanded under one args map.
SpecExp ==
  InitExp /\ [][NextExp]_vars

\* What the rule of the claim allows in place of token i: the value for a
\* reference whose name is in args, `$NAME` for a reference whose name is
\* not, the text itself otherwise; `${}` is either other text or a
\* reference with the empty name, which no args map has.
AllowedAt(s, a, i) ==
  IF IsRef(s, i)
    THEN {IF HasArg(a, RefName(s[i])) THEN GetArg(a, RefName(s[i]))
          ELSE << IF RefName(s[i]) = "K" THEN "$K" ELSE "$X" >>}
    ELSE IF s[i] = "${}" THEN {<< "${}" >>, << "$" >>}
    ELSE {<< s[i] >>}

RECURSIVE AllowedFrom(_, _, _)
AllowedFrom(s, a, i) ==
  IF i > Len(s) THEN {<< >>}
  ELSE {h \o t : h \in AllowedAt(s, a, i), t \in AllowedFrom(s, a, i + 1)}

\* C28: for every string s and mapping args, expansion replaces each
\* reference whose name is in args by its value, each reference whose name
\* is not in args by the literal `$NAME`, and leaves all other text
\* unchanged; hence expand(s, {}) = s whenever s contains no `$`.
C28_ExpansionRule ==
  xOut # "none" =>
    /\ xOut \in AllowedFrom(xS, xArgs, 1)
    /\ ((\A i \in DOMAIN xS : xS[i] \in {"echo", " "}) => xOut = xS)

\* The history entry k was made by processBuild's loop, not by a `*`-task.
BySequential(k) ==
  ~IsStar(dPlan[dLog[k].i])

\* The last entry of one of the given kinds before entry k, 0 if none.
LastBefore(k, kinds) ==
  LET S == {m \in 1..(k - 1) : dLog[m].what \in kinds}
  IN  IF S = {} THEN 0 ELSE CHOOSE m \in S : \A n \in S : n <= m

\* The args map, and the environment, that the writes made before entry k
\* leave: K (E) holds what the most recent ARG (ENV) stored.
ArgsBefore(k) ==
  IF LastBefore(k, {"ARG"}) = 0 THEN {}
  ELSE {<< "K", dLog[LastBefore(k, {"ARG"})].text >>}

EnvBefore(k) ==
  IF LastBefore(k, {"ENV"}) = 0 THEN {}
  ELSE {<< "E", dLog[LastBefore(k, {"ENV"})].text >>}

\* C29: sequential directives run in source order and each sees the writes
\* of its predecessors: an ARG stores expand(V, args as they were), every
\* later sequential directive expands `$K` to the value stored by the most
\* recent assignment of K, and an ENV is in the environment of every later
\* spawned RUN and CMD shell.
C29_SequentialSeesWrites ==
  \A k \in DOMAIN dLog :
    BySequential(k) =>
      LET e == dLog[k]
          r == dPlan[e.i]
      IN  /\ (e.what # "CMD" =>
                /\ \A m \in 1..(k - 1) :
                     BySequential(m) => dLog[m].i <= e.i
                /\ \A j \in 1..(e.i - 1) :
                     ~IsStar(dPlan[j]) /\ DirName(dPlan[j]) \in {"ARG", "ENV"}
                       => \E m \in 1..(k - 1) :
                            dLog[m].i = j /\ dLog[m].what = DirName(dPlan[j]))
          /\ (e.what = "ARG" =>
                e.text = expandArgs(ValueOf(r.Args), ArgsBefore(k)))
          /\ (e.what = "EXPAND" =>
                e.text = expandArgs(IF DirName(r) = "ENV"
                                      THEN ValueOf(r.Args) ELSE r.Args,
                                    ArgsBefore(k)))
          /\ (e.what \in {"RUN", "CMD"} /\ e.ok => e.env = EnvBefore(k))

\* C29 witness: the loop has run an ARG, an ENV that read the ARG's value
\* and a RUN whose command is that value and whose shell has the ENV's
\* variable.
C29_Witness ==
  /\ dThr[0] = "done"
  /\ \E k \in DOMAIN dLog :
       /\ BySequential(k)
       /\ dLog[k].what = "RUN"
       /\ dLog[k].ok
       /\ dLog[k].text = << "echo" >>
       /\ dLog[k].env = {<< "E", << "echo" >> >>}
       /\ LastBefore(k, {"ARG"}) # 0

\* ------------------------------------------------- the round trip of a plan

\* The text of one record: directive + " " + args.
RenderRecord(r) ==
  r.Directive \o << " " >> \o r.Args

\* The texts of the records joined by newlines.
RECURSIVE Render(_)
Render(rs) ==
  IF rs = << >> THEN << >>
  ELSE IF Len(rs) = 1 THEN RenderRecord(rs[1])
  ELSE RenderRecord(rs[1]) \o << "\n" >> \o Render(Tail(rs))

\* The lines scanner.Scan() and scanner.Text() give for a text: the text is
\* cut at each newline, and a last line without a newline is a line when it
\* is not empty.
RECURSIVE ScanLines(_)
ScanLines(text) ==
  IF text = << >> THEN << >>
  ELSE IF \E i \in DOMAIN text : text[i] = "\n"
    THEN LET i == CHOOSE j \in DOMAIN text :
                    text[j] = "\n" /\ \A k \in 1..(j - 1) : text[k] # "\n"
         IN  << SubSeq(text, 1, i - 1) >>
               \o ScanLines(SubSeq(text, i + 1, Len(text)))
    ELSE << text >>

\* parseFile has returned the records of the plan file; they are rendered
\* and parseFile is called on the text: it opens the file and starts with no
\* instructions and an empty multiLineCommand
Parse_Render ==
  /\ parsePc = "ok"
  /\ pass = 1
  /\ firstRecords' = records
  /\ pass' = 2
  /\ file' = ScanLines(Render(records))
  /\ lineNo' = 0
  /\ multiLineCommand' = << >>
  /\ records' = << >>
  /\ recLine' = << >>
  /\ parsePc' = "scan"
  /\ UNCHANGED << pfErr, buildAll, execVars, poolVars, regVars, dirVars,
                  mainVars, fwdVars, valVars, expVars, fsVars, psVars >>

NextTrip ==
  \/ Parse_Skip
  \/ Parse_Continue
  \/ Parse_Record
  \/ Parse_EOF
  \/ Parse_Render

\* parseFile run on a plan file and then on the rendering of its records.
SpecTrip ==
  InitParse /\ [][NextTrip]_vars

\* Whitespace normalisation of an argument text: every run of blanks and
\* newlines counts as one blank.
RECURSIVE Normalise(_)
Normalise(l) ==
  IF l = << >> THEN << >>
  ELSE IF IsSpace(Head(l))
    THEN << " " >> \o Normalise(TrimLeft(l))
    ELSE << Head(l) >> \o Normalise(Tail(l))

\* The second parse has returned.
Reparsed ==
  pass = 2 /\ parsePc # "scan"

\* C30: when the plan file parses, parsing the rendering of its records
\* (directive, a blank, args, one record a line) succeeds and returns the
\* same list of records: as many records, each with the same directive and
\* the same args up to whitespace.
C30_ParseRoundTrip ==
  Reparsed =>
    /\ parsePc = "ok"
    /\ Len(records) = Len(firstRecords)
    /\ \A k \in DOMAIN records :
         k \in DOMAIN firstRecords =>
           /\ records[k].Directive = firstRecords[k].Directive
           /\ Normalise(records[k].Args) = Normalise(firstRecords[k].Args)

\* C31: the command the deferred CMD runs is the args of the plan's CMD
\* record, wherever that record stands in the plan, and not the args of a
\* record that follows it.
C31_CmdRunsItsOwnArgs ==
  \A k \in DOMAIN dLog :
    dLog[k].what = "CMD" => dLog[k].text = dPlan[dLog[k].i].Args

\* ---------------------------------------- the file directives of one build

\* The records explored: DIR of a, of a/b and of the file s; WDR of a, of a
\* directory nobody makes, of the file s and of two names; CPY and `*CPY` of
\* the file s, of a file nobody makes, of the directory a, onto the
\* directory a, onto the file s and with one name; FMT in its four forms and
\* with a format string only.
FsRecords ==
  {[Directive |-> << "DIR" >>, Args |-> a] :
     a \in {<< "a" >>, << "a", "/", "b" >>, << "s" >>}}
    \cup {[Directive |-> << "WDR" >>, Args |-> a] :
            a \in {<< "a" >>, << "c" >>, << "s" >>, << "a", " ", "b" >>}}
    \cup {[Directive |-> << "CPY" >>, Args |-> a] :
            a \in {<< "s", " ", "d" >>, << "m", " ", "d" >>,
                   << "a", " ", "d" >>, << "s", " ", "a" >>,
                   << "a", " ", "s" >>, << "s" >>}}
    \cup {[Directive |-> << "*", "CPY" >>, Args |-> a] :
            a \in {<< "s", " ", "d" >>, << "m", " ", "d" >>}}
    \cup {[Directive |-> << "FMT" >>, Args |-> a] :
            a \in {<< "f", " ", "x" >>, << "f" >>}}
    \cup {[Directive |-> << "^", "FMT" >>, Args |-> << "f", " ", "s" >>],
          [Directive |-> << "$", "FMT" >>, Args |-> << "f", " ", "x", " ", "V" >>],
          [Directive |-> << "&", "FMT" >>, Args |-> << "f", " ", "x", " ", "V" >>]}

FsPlans ==
  SeqsUpTo(MaxDirPlan, FsRecords)

\* isAlphanumeric(r) for the first character of a directive
isAlphanumeric(t) ==
  t \notin {"*", "^", "$", "&"}

\* if len(inst.Directive) > 1 && !isAlphanumeric(inst.Directive[0]) {
\*   inst.Directive = inst.Directive[1:] }
Stripped(d) ==
  IF Len(d) > 1 /\ ~isAlphanumeric(Head(d)) THEN Tail(d) ELSE d

\* inst.Directive as the switch of executeInstruction finds it in thread t:
\* a `*`-task comes through executeInstructionConcurrent, which trims the `*`.
Switched(t) ==
  Stripped(IF t = 0 THEN RecOf(t).Directive ELSE StripStar(RecOf(t).Directive))

\* strings.Fields
RECURSIVE Fields(_)
Fields(l) ==
  IF TrimSpace(l) = << >> THEN << >>
  ELSE LET parts == SplitN2(TrimLeft(l))
       IN  IF Len(parts) = 1 THEN << parts[1] >>
           ELSE << parts[1] >> \o Fields(parts[2])

\* strings.SplitN(inst.Args, " ", 3)
SplitN3(l) ==
  LET parts == SplitN2(l)
  IN  IF Len(parts) = 1 THEN parts ELSE << parts[1] >> \o SplitN2(parts[2])

\* The directory or file a name stands for: the name is expanded and is
\* relative to the working directory.  filepath.Clean changes none of the
\* names explored.
Resolve(l) ==
  fsCwd \o SelectSeq(expandArgs(l, dArgs), LAMBDA t : t # "/")

\* A path and the directories above it.
Prefixes(p) ==
  {SubSeq(p, 1, n) : n \in 0..Len(p)}

IsFile(p) ==
  \E f \in fsFiles : f[1] = p

\* os.MkdirAll fails when the path or a directory above it is a file.
MkdirAllFails(p) ==
  \E q \in Prefixes(p) : IsFile(q)

MkdirAll(dirs, p) ==
  dirs \cup Prefixes(p)

\* fmt.Sprintf(formatString, expandedArgs...): the text of the format string
\* with the arguments put in
Sprintf(f, xs) ==
  f \o << "%" >> \o xs

\* The variables no file directive changes.
fsRest ==
  << buildAll, execVars, parseVars, poolVars, regVars, mainVars, fwdVars,
     valVars, expVars, tripVars, psVars >>

InitFs ==
  /\ IdleExcept("dir")
  /\ dPlan \in FsPlans
  /\ dCur = 0
  /\ dThr = [t \in DirThreads |-> IF t = 0 THEN "next" ELSE "idle"]
  /\ dArgs = {}
  /\ dLock = -1
  /\ dEnv = {}
  /\ dBoxes = [t \in DirThreads |-> {}]
  /\ dText = [t \in DirThreads |-> << >>]
  /\ dLog = << >>

\* case "DIR": os.MkdirAll(filepath.Clean(expandedArgs), 0755)
Dir_Dir(t) ==
  /\ dThr[t] = "switch"
  /\ Switched(t) = << "DIR" >>
  /\ LET p == Resolve(RecOf(t).Args)
         ok == ~MkdirAllFails(p)
     IN  /\ fsDirs' = IF ok THEN MkdirAll(fsDirs, p) ELSE fsDirs
         /\ dLog' = Append(dLog, Did(t, "DIR", p, ok))
         /\ dThr' = [dThr EXCEPT ![t] = AfterReturn(t, ok)]
  /\ UNCHANGED << dPlan, dCur, dArgs, dLock, dEnv, dBoxes, dText, fsCwd,
                  fsFiles, fsRest >>

\* A WDR that takes the first of several names.
SomeDirectory(parts) ==
  Len(parts) >= 1

\* if len(parts) != 1 { return error }
OneDirectory(parts) ==
  Len(parts) = 1

\* case "WDR": one name, os.Stat finds it, os.Chdir enters it; os.Chdir
\* fails on a file
Dir_Wdr(t) ==
  /\ dThr[t] = "switch"
  /\ Switched(t) = << "WDR" >>
  /\ LET parts == Fields(RecOf(t).Args)
     IN  IF ~OneDirectory(parts)
           THEN /\ dLog' = Append(dLog, Did(t, "WDR", << "only one directory allowed" >>, FALSE))
                /\ dThr' = [dThr EXCEPT ![t] = AfterReturn(t, FALSE)]
                /\ UNCHANGED fsCwd
         ELSE IF Resolve(parts[1]) \notin fsDirs /\ ~IsFile(Resolve(parts[1]))
           THEN /\ dLog' = Append(dLog, Did(t, "WDR", << "directory does not exist" >>, FALSE))
                /\ dThr' = [dThr EXCEPT ![t] = AfterReturn(t, FALSE)]
                /\ UNCHANGED fsCwd
         ELSE IF Resolve(parts[1]) \notin fsDirs
           THEN /\ dLog' = Append(dLog, Did(t, "WDR", << "failed to change directory" >>, FALSE))
                /\ dThr' = [dThr EXCEPT ![t] = AfterReturn(t, FALSE)]
                /\ UNCHANGED fsCwd
         ELSE /\ fsCwd' = Resolve(parts[1])
              /\ dLog' = Append(dLog, Did(t, "WDR", Resolve(parts[1]), TRUE))
              /\ dThr' = [dThr EXCEPT ![t] = AfterReturn(t, TRUE)]
  /\ UNCHANGED << dPlan, dCur, dArgs, dLock, dEnv, dBoxes, dText, fsDirs,
                  fsFiles, fsRest >>

\* copyFunc: what it logs and the directories and files it leaves.  The
\* source is missing; or it is a directory, copied by copyDir (os.MkdirAll of
\* the destination, then every entry); or it is a file, copied by copyFile
\* (os.Create fails on a directory).
CopyOutcome(src, dst) ==
  IF src \notin fsDirs /\ ~IsFile(src)
    THEN [text |-> << "Error accessing source" >>, dirs |-> fsDirs,
          files |-> fsFiles]
  ELSE IF src \in fsDirs
    THEN IF MkdirAllFails(dst)
           THEN [text |-> << "Copy operation failed" >>, dirs |-> fsDirs,
                 files |-> fsFiles]
           ELSE LET Under(p) == Len(p) >= Len(src) /\ SubSeq(p, 1, Len(src)) = src
                    Moved(p) == dst \o SubSeq(p, Len(src) + 1, Len(p))
                    new == {<< Moved(f[1]), f[2] >> : f \in {g \in fsFiles : Under(g[1])}}
                IN  [text |-> << "CPY: Copied" >>,
                     dirs |-> MkdirAll(fsDirs, dst)
                                \cup {Moved(p) : p \in {q \in fsDirs : Under(q)}},
                     files |-> {f \in fsFiles : \A n \in new : n[1] # f[1]}
                                 \cup new]
  ELSE IF dst \in fsDirs
    THEN [text |-> << "Copy operation failed" >>, dirs |-> fsDirs,
          files |-> fsFiles]
  ELSE [text |-> << "CPY: Copied" >>, dirs |-> fsDirs,
        files |-> {f \in fsFiles : f[1] # dst}
                    \cup {<< dst, f[2] >> : f \in {g \in fsFiles : g[1] = src}}]

\* case "CPY", "*CPY": two names; with inst.Directive == "*CPY" copyFunc
\* gets a goroutine (its copy is taken with this step) and the start is
\* logged, otherwise copyFunc is called.  copyFunc returns nothing, and the
\* case returns nil after it.
Dir_Cpy(t) ==
  /\ dThr[t] = "switch"
  /\ Switched(t) \in {<< "CPY" >>, << "*", "CPY" >>}
  /\ LET parts == Fields(RecOf(t).Args)
     IN  IF Len(parts) # 2
           THEN /\ dLog' = Append(dLog, Did(t, "CPY", << "CPY directive requires exactly two arguments" >>, FALSE))
                /\ dThr' = [dThr EXCEPT ![t] = AfterReturn(t, FALSE)]
                /\ UNCHANGED << fsDirs, fsFiles >>
           ELSE LET o == CopyOutcome(Resolve(parts[1]), Resolve(parts[2]))
                IN  /\ fsDirs' = o.dirs
                    /\ fsFiles' = o.files
                    /\ dLog' = Append(dLog,
                                 Did(t, "CPY",
                                     IF Switched(t) = << "*", "CPY" >>
                                       THEN << "Started asynchronous copy" >>
                                       ELSE o.text,
                                     TRUE))
                    /\ dThr' = [dThr EXCEPT ![t] = AfterReturn(t, TRUE)]
  /\ UNCHANGED << dPlan, dCur, dArgs, dLock, dEnv, dBoxes, dText, fsCwd,
                  fsRest >>

\* appendToFile: os.OpenFile with O_APPEND, O_WRONLY and O_CREATE, then
\* WriteString
AppendToFile(files, p, content) ==
  {f \in files : f[1] # p}
    \cup {<< p, IF IsFile(p)
                  THEN (CHOOSE f \in files : f[1] = p)[2] \o << content >>
                  ELSE << content >> >>}

\* case "FMT", "^FMT", "$FMT", "&FMT": the string is formatted, then the
\* inner switch on inst.Directive appends it to a file, sets an environment
\* variable, stores it in args, or logs it
Dir_Fmt(t) ==
  /\ dThr[t] = "switch"
  /\ Switched(t) \in {<< "FMT" >>, << "^", "FMT" >>, << "$", "FMT" >>,
                      << "&", "FMT" >>}
  /\ LET parts == SplitN3(RecOf(t).Args)
         d == Switched(t)
     IN  IF Len(parts) < 2
           THEN /\ dLog' = Append(dLog, Did(t, "FMT", << "requires at least two arguments" >>, FALSE))
                /\ dThr' = [dThr EXCEPT ![t] = AfterReturn(t, FALSE)]
                /\ UNCHANGED << dArgs, dEnv, fsFiles >>
         ELSE IF d \in {<< "$", "FMT" >>, << "&", "FMT" >>} /\ Len(parts) # 3
           THEN /\ dLog' = Append(dLog, Did(t, "FMT", << "requires three arguments" >>, FALSE))
                /\ dThr' = [dThr EXCEPT ![t] = AfterReturn(t, FALSE)]
                /\ UNCHANGED << dArgs, dEnv, fsFiles >>
         ELSE IF d = << "^", "FMT" >> /\ Resolve(parts[2]) \in fsDirs
           THEN /\ dLog' = Append(dLog, Did(t, "FMT", << "failed to append to file" >>, FALSE))
                /\ dThr' = [dThr EXCEPT ![t] = AfterReturn(t, FALSE)]
                /\ UNCHANGED << dArgs, dEnv, fsFiles >>
         ELSE LET formattedString == Sprintf(parts[1], expandArgs(parts[2], dArgs))
              IN  /\ fsFiles' = IF d = << "^", "FMT" >>
                                  THEN AppendToFile(fsFiles, Resolve(parts[2]),
                                                    formattedString)
                                  ELSE fsFiles
                  /\ dEnv' = IF d = << "$", "FMT" >>
                               THEN SetArg(dEnv, parts[3], formattedString)
                               ELSE dEnv
                  /\ dArgs' = IF d = << "&", "FMT" >>
                                THEN SetArg(dArgs, parts[3], formattedString)
                                ELSE dArgs
                  /\ dLog' = Append(dLog, Did(t, "FMT", formattedString, TRUE))
                  /\ dThr' = [dThr EXCEPT ![t] = AfterReturn(t, TRUE)]
  /\ UNCHANGED << dPlan, dCur, dLock, dBoxes, dText, fsCwd, fsDirs, fsRest >>

NextFs ==
  \/ Dir_Next
  \/ Dir_Wait
  \/ \E t \in DirThreads : Dir_Call(t)
  \/ \E t \in DirThreads : Dir_Dir(t)
  \/ \E t \in DirThreads : Dir_Wdr(t)
  \/ \E t \in DirThreads : Dir_Cpy(t)
  \/ \E t \in DirThreads : Dir_Fmt(t)

\* One build's DIR, WDR, CPY and FMT records taken through
\* executeInstruction by processBuild's loop and by the goroutines of its
\* `*` records.
SpecFs ==
  InitFs /\ [][NextFs]_vars

\* The history entry k is a CPY whose copy failed.
CopyFailed(k) ==
  /\ dLog[k].what = "CPY"
  /\ dLog[k].text \in {<< "Error accessing source" >>,
                       << "Copy operation failed" >>}

\* C32: a synchronous CPY whose copy fails (the source is missing, or the
\* file or directory copy gives an error) returns an error: the build fails
\* and no later directive is dispatched.
C32_CopyFailureFails ==
  \A k \in DOMAIN dLog :
    CopyFailed(k) /\ BySequential(k) =>
      /\ ~dLog[k].ok
      /\ dThr[0] = "failed"
      /\ dCur = dLog[k].i

\* C33: the executor keeps the variant of the directive it dispatches:
\* `&FMT format arg VAR` stores the formatted string in args[VAR], `$FMT`
\* sets the environment variable VAR, `^FMT` appends the string to the file
\* named last, and `*CPY` takes the detached path and logs its start.
C33_VariantsKept ==
  dLog # << >> =>
    LET e == dLog[Len(dLog)]
        r == dPlan[e.i]
    IN  e.ok =>
          /\ (r.Directive = << "&", "FMT" >> =>
                << SplitN3(r.Args)[3], e.text >> \in dArgs)
          /\ (r.Directive = << "$", "FMT" >> =>
                << SplitN3(r.Args)[3], e.text >> \in dEnv)
          /\ (r.Directive = << "^", "FMT" >> =>
                \E f \in fsFiles : f[2][Len(f[2])] = e.text)
          /\ (r.Directive = << "*", "CPY" >> =>
                e.text = << "Started asynchronous copy" >>)

\* Thread t is about to execute a record of directive d.
AtDirective(t, d) ==
  dThr[t] = "switch" /\ Switched(t) = << d >>

\* The record of thread t names exactly one directory, and it exists.
GoodTarget(t) ==
  /\ Len(Fields(RecOf(t).Args)) = 1
  /\ Resolve(Fields(RecOf(t).Args)[1]) \in fsDirs

JobBuildID ==
  << "t0" >>

JobWorkerNode ==
  << "default-worker" >>

\* The records explored: ARG of BUILD_ID to the parent's id and to another
\* id, ARG of WORKER_NODE to the parent's worker, ARG of another name, and
\* SUB and `*SUB` of a file.
SubIdRecords ==
  {[Directive |-> << "ARG" >>, Args |-> a] :
     a \in {<< "BUILD_ID", "=", "t0" >>, << "BUILD_ID", "=", "echo" >>,
            << "WORKER_NODE", "=", "default-worker" >>,
            << "K", "=", "echo" >>}}
    \cup {[Directive |-> d, Args |-> << "f" >>] :
            d \in {<< "SUB" >>, << "*", "SUB" >>}}

SubIdPlans ==
  SeqsUpTo(MaxDirPlan, SubIdRecords)

\* args[k]: the value stored, the empty string where the map has no k
ArgValue(a, k) ==
  IF HasArg(a, k) THEN GetArg(a, k) ELSE << >>

InitSubId ==
  /\ IdleExcept("dir")
  /\ dPlan \in SubIdPlans
  /\ dCur = 0
  /\ dThr = [t \in DirThreads |-> IF t = 0 THEN "next" ELSE "idle"]
  /\ dArgs = {}
  /\ dLock = -1
  /\ dEnv = {}
  /\ dBoxes = [t \in DirThreads |-> {}]
  /\ dText = [t \in DirThreads |-> << >>]
  /\ dLog = << >>

\* case "SUB", "*SUB": subBuildID is args["BUILD_ID"], "-sub-" and the clock
\* reading n; build(referencedFile, subBuildID, args["WORKER_NODE"], ...)
\* is started and buildFunc waits for it.  buildFunc returns nothing: the
\* case returns nil.  The entry holds the identity the nested build got.
Dir_Sub(t) ==
  /\ dThr[t] = "switch"
  /\ Switched(t) \in {<< "SUB" >>, << "*", "SUB" >>}
  /\ dLog' = Append(dLog,
               Did(t, "SUB",
                   [BuildID |-> ArgValue(dArgs, "BUILD_ID") \o << "-sub-", "n" >>,
                    WorkerNode |-> ArgValue(dArgs, "WORKER_NODE")],
                   TRUE))
  /\ dThr' = [dThr EXCEPT ![t] = AfterReturn(t, TRUE)]
  /\ UNCHANGED << dPlan, dCur, dArgs, dLock, dEnv, dBoxes, dText, notDirVars >>

NextSubId ==
  \/ Dir_Next
  \/ Dir_Wait
  \/ \E t \in DirThreads : Dir_Call(t)
  \/ \E t \in DirThreads : Dir_ArgLock(t)
  \/ \E t \in DirThreads : Dir_WriteBegin(t)
  \/ \E t \in DirThreads : Dir_WriteEnd(t)
  \/ \E t \in DirThreads : Dir_Unlock(t)
  \/ \E t \in DirThreads : Dir_Sub(t)

\* One build of the build command with ARG, SUB and `*SUB` records.
SpecSubId ==
  InitSubId /\ [][NextSubId]_vars

\* C34: every sub-build a build launches has the parent's build id followed
\* by `-sub-<n>` as its build id and the parent's worker id as its worker id.
C34_SubInheritsIdentity ==
  \A k \in DOMAIN dLog :
    dLog[k].what = "SUB" =>
      /\ dLog[k].text.BuildID = JobBuildID \o << "-sub-", "n" >>
      /\ dLog[k].text.WorkerNode = JobWorkerNode

\* C36: no task sends on the result sink or the status sink of a build after
\* that sink was closed (such a send stops the process), whether the task is
\* a `*`-task that runs on when the build returns early or the timeout
\* wrapper next to a build that completes.
C36_NoSendAfterClose ==
  ~panicked

\* C37: once a `*`-task of a build has returned an error the deferred CMD of
\* that build is never executed and the build never reports Completed; a
\* build that reached the join with such a task has ended Failed when its
\* terminal record is sent.
C37_TaskErrorFailsBuild ==
  /\ (taskErr # {} =>
        /\ ~cmdStarted
        /\ buildInfoStatus # statusCompleted
        /\ \A k \in DOMAIN buildInfoChan :
             buildInfoChan[k].status # statusCompleted)
  /\ (taskErr # {} /\ joined /\ PbTerminalSent =>
        buildInfoChan[Len(buildInfoChan)].status = statusFailed)

\* C37 witness: two `*`-tasks failed, one of the two errors was lost in the
\* list, and the build, which had a CMD pending, ended Failed at the join.
C37_Witness ==
  /\ joined
  /\ PbTerminalSent
  /\ cmdInstruction # 0
  /\ Cardinality(taskErr) >= 2
  /\ concurrentErrors # taskErr
  /\ ~cmdStarted

\* C38: when the join has been passed, the concurrent-error list holds one
\* entry for every `*`-task that returned an error.
C38_NoErrorLost ==
  joined => concurrentErrors = taskErr

\* ------------------------------------------------------------ the ps command

\* The arguments explored: none, -a, a filter, both, and a flag ps does not
\* have.
PsArguments ==
  {"", "-a", "-f Running", "-a -f b1", "-z"}

\* Everything but the variables of main and of ps.
psRest ==
  << buildAll, execVars, parseVars, poolVars, regVars, dirVars, fwdVars,
     valVars, expVars, tripVars, fsVars >>

InitPs ==
  /\ BuildIdle
  /\ ExecIdle
  /\ ParseIdle
  /\ PoolIdle
  /\ RegIdle
  /\ DirIdle
  /\ FwdIdle
  /\ ValIdle
  /\ ExpIdle
  /\ TripIdle
  /\ FsIdle
  /\ psArgs \in PsArguments
  /\ psPc = "none"
  /\ psReg = "none"
  /\ psTimeout = FALSE
  /\ mIn = "ps"
  /\ mainPc = "flags"
  /\ hsPc = "none"
  /\ runPc = "none"
  /\ runResult = "none"
  /\ hsErr = "none"
  /\ mRoot = FALSE
  /\ mDone = FALSE
  /\ exitCode = -1

\* Run of ps up to `builds := <-outputChan`: fs.Parse returns an error, or
\* the three channels are made and listActiveBuilds gets its goroutine.
\* buildInfoChan is handed to listActiveBuilds only: no goroutine sends on
\* it or closes it, and done is closed only after the receive.  So
\* listActiveBuilds stays in its select, never sends on outputChan, and Run
\* stays in the receive; the rendering and close(done) after it are not
\* reached.
Ps_Run ==
  /\ Running
  /\ runPc = "running"
  /\ psPc = "none"
  /\ IF psArgs = "-z"
       THEN /\ runResult' = "error"
            /\ runPc' = "returned"
            /\ psPc' = "returned"
            /\ UNCHANGED psReg
       ELSE /\ psPc' = "receive"
            /\ psReg' = "select"
            /\ UNCHANGED << runResult, runPc >>
  /\ UNCHANGED << mIn, mainPc, hsPc, hsErr, mRoot, mDone, exitCode, psArgs,
                  psTimeout, psRest >>

\* the deadline of cmdCtx expires; Run of ps does not look at its context,
\* and the select of handleSubcommands waits for ctx, not for cmdCtx
Ps_Timeout ==
  /\ Running
  /\ hsPc = "select"
  /\ ~psTimeout
  /\ psTimeout' = TRUE
  /\ UNCHANGED << mainVars, psArgs, psPc, psReg, psRest >>

\* A step of the program: every step but the arrival of a signal.
PsStep ==
  \/ Main_Flags
  \/ HS_Start
  \/ Ps_Run
  \/ Ps_Timeout
  \/ HS_Cancelled
  \/ HS_RunReturned
  \/ Main_SelectCancelled
  \/ Main_Exit

NextPs ==
  \/ Main_Signal
  \/ Main_Flags
  \/ HS_Start
  \/ Ps_Run
  \/ Ps_Timeout
  \/ HS_Cancelled
  \/ HS_RunReturned
  \/ Main_SelectCancelled
  \/ Main_Exit

\* `jetty ps`: main, handleSubcommands and the Run of ps.  Every goroutine
\* keeps being scheduled and the deadline expires; a signal may or may not
\* arrive.
SpecPs ==
  InitPs /\ [][NextPs]_vars /\ WF_vars(PsStep)

\* C39: the ps command always terminates: its Run returns, with the
\* snapshot rendered, or the command ends when its deadline has expired.
C39_PsTerminates ==
  <>(runPc = "returned" \/ ~Running)

====
